---- MODULE Spec2Model ----
(***************************************************************************)
(* Woodland Play Cafe reconciliation scripts: the POS pipeline of          *)
(* src/Others/POSComparisionReport.py (load, prepare, filter, group,       *)
(* reconcile, report), with the pandas operations it is built from.        *)
(*                                                                         *)
(* Monetary columns are float64.  A float64 is modelled exactly, as a sign *)
(* and a magnitude in units of 2^-59 held in three limbs <<h, m, l>> of 20 *)
(* bits (value = h*2^40 + m*2^20 + l).  Every float64 of magnitude in      *)
(* [0.01, 16) and every sum or difference of such values is a multiple of  *)
(* 2^-59, so the arithmetic below is IEEE-754 round-to-nearest-even on the *)
(* values the model uses.  The membership scripts of src/Archive,          *)
(* src/PDF Generators and src/FinalScript follow the POS pipeline.         *)
(***************************************************************************)
EXTENDS Integers, Sequences, FiniteSets, TLC

\* ------------------------------------------------------------------------
\* float64 arithmetic
\* ------------------------------------------------------------------------

LimbBase == 2^20

ZeroMag == <<0, 0, 0>>

MagLess(a, b) ==
    \/ a[1] < b[1]
    \/ a[1] = b[1] /\ a[2] < b[2]
    \/ a[1] = b[1] /\ a[2] = b[2] /\ a[3] < b[3]

MagAdd(a, b) ==
    LET l == a[3] + b[3]
        m == a[2] + b[2] + (l \div LimbBase)
        h == a[1] + b[1] + (m \div LimbBase)
    IN  <<h, m % LimbBase, l % LimbBase>>

\* a - b for a >= b
MagSub(a, b) ==
    LET bl == IF a[3] < b[3] THEN 1 ELSE 0
        l  == a[3] - b[3] + bl * LimbBase
        bm == IF a[2] - bl < b[2] THEN 1 ELSE 0
        m  == a[2] - bl - b[2] + bm * LimbBase
    IN  <<a[1] - bm - b[1], m, l>>

RECURSIVE BitLen(_)
BitLen(n) == IF n = 0 THEN 0 ELSE 1 + BitLen(n \div 2)

\* Number of low bits a magnitude has beyond the 53 of a float64 significand.
RoundShift(mag) ==
    LET n == BitLen(mag[1]) IN IF n > 13 THEN n - 13 ELSE 0

\* Round-to-nearest, ties-to-even, of (mag + rem/den) to 53 significant bits.
RoundMag(mag, rem, den) ==
    LET p    == 2^RoundShift(mag)
        q    == mag[3] \div p
        t    == (mag[3] % p) * den + rem
        up   == \/ 2 * t > p * den
                \/ 2 * t = p * den /\ q % 2 = 1
        l    == (IF up THEN q + 1 ELSE q) * p
        m    == mag[2] + (l \div LimbBase)
    IN  <<mag[1] + (m \div LimbBase), m % LimbBase, l % LimbBase>>

MkFloat(neg, mag) == [neg |-> neg /\ mag # ZeroMag, mag |-> mag]

FZero == MkFloat(FALSE, ZeroMag)

\* float(c/100) for a decimal cell holding c cents, c >= 0.
FromCents(c) ==
    LET n1 == c * 2^19
        r1 == n1 % 100
        n2 == r1 * LimbBase
        r2 == n2 % 100
        n3 == r2 * LimbBase
    IN  MkFloat(FALSE, RoundMag(<<n1 \div 100, n2 \div 100, n3 \div 100>>, n3 % 100, 100))

FNeg(x) == MkFloat(~x.neg, x.mag)

FAbs(x) == MkFloat(FALSE, x.mag)

FAdd(x, y) ==
    IF x.neg = y.neg
    THEN MkFloat(x.neg, RoundMag(MagAdd(x.mag, y.mag), 0, 1))
    ELSE IF MagLess(x.mag, y.mag)
         THEN MkFloat(y.neg, RoundMag(MagSub(y.mag, x.mag), 0, 1))
         ELSE MkFloat(x.neg, RoundMag(MagSub(x.mag, y.mag), 0, 1))

FSub(x, y) == FAdd(x, FNeg(y))

FGreater(x, y) ==
    IF x.neg # y.neg THEN y.neg
    ELSE IF x.neg THEN MagLess(x.mag, y.mag) ELSE MagLess(y.mag, x.mag)

\* ------------------------------------------------------------------------
\* float64 multiplication, division and rounding to two decimals, for the
\* values of the membership reports: 0 and the range [2^-7, 2048)
\* ------------------------------------------------------------------------

\* Not a number and infinity, as a float64 cell holds them.
FNaN == [neg |-> FALSE, mag |-> <<-1, 0, 0>>]

FInf == [neg |-> FALSE, mag |-> <<-2, 0, 0>>]

IsFinite(x) == x.mag[1] >= 0

\* float(n) for an integer 0 <= n < 2048
FromInt(n) == MkFloat(FALSE, <<n * 2^19, 0, 0>>)

MagDouble(a) == MagAdd(a, a)

\* The half of a magnitude, rounded down.
MagHalf(a) ==
    <<a[1] \div 2,
      (a[2] + (a[1] % 2) * LimbBase) \div 2,
      (a[3] + (a[2] % 2) * LimbBase) \div 2>>

\* Bit i of a magnitude, bit 0 the lowest.
MagBit(a, i) ==
    IF i < 20 THEN (a[3] \div 2^i) % 2
    ELSE IF i < 40 THEN (a[2] \div 2^(i - 20)) % 2
    ELSE (a[1] \div 2^(i - 40)) % 2

MagBitLen(a) ==
    IF a[1] > 0 THEN 40 + BitLen(a[1])
    ELSE IF a[2] > 0 THEN 20 + BitLen(a[2])
    ELSE BitLen(a[3])

\* What lies below the last bit of a magnitude, as a fraction rem/den that
\* RoundMag rounds as it rounds the exact remainder: nothing, less than a
\* half, a half, more than a half.
Exact == <<0, 1>>

BelowHalf == <<1, 4>>

Half == <<1, 2>>

AboveHalf == <<3, 4>>

\* a * 2^k
RECURSIVE MagShl(_, _)
MagShl(a, k) == IF k = 0 THEN a ELSE MagShl(MagDouble(a), k - 1)

\* One bit of a quotient: the divisor is subtracted from the remainder when
\* it fits.
DivBit(st, den) ==
    LET take == ~MagLess(st.r, den)
    IN  [q |-> IF take THEN MagAdd(MagDouble(st.q), <<0, 0, 1>>) ELSE MagDouble(st.q),
         r |-> IF take THEN MagSub(st.r, den) ELSE st.r]

\* The bits k-1 down to 0 of the integer part of r / den, for r < 2^k * den:
\* bit i is taken against den * 2^i.  The steps are done by halves, the
\* first half computed before the second, to keep the evaluation shallow.
RECURSIVE DivInt(_, _, _, _)
DivInt(st, den, hi, lo) ==
    IF hi < lo THEN st
    ELSE IF hi = lo THEN DivBit(st, MagShl(den, lo))
    ELSE LET mid  == (hi + lo + 1) \div 2
             left == DivInt(st, den, hi, mid)
         IN  IF left.r[1] >= 0 THEN DivInt(left, den, mid - 1, lo) ELSE left

\* k more bits of the quotient of r / den, r < den, by halves.
RECURSIVE DivFrac(_, _, _)
DivFrac(st, den, k) ==
    IF k = 0 THEN st
    ELSE IF k = 1 THEN DivBit([q |-> st.q, r |-> MagDouble(st.r)], den)
    ELSE LET left == DivFrac(st, den, k \div 2)
         IN  IF left.r[1] >= 0 THEN DivFrac(left, den, k - (k \div 2)) ELSE left

\* x / y of two finite values, y not zero: the quotient to 59 binary places,
\* rounded to the 53 bits of a float64.
FDivFinite(x, y) ==
    LET k     == IF MagBitLen(x.mag) >= MagBitLen(y.mag)
                 THEN MagBitLen(x.mag) - MagBitLen(y.mag) + 1 ELSE 0
        whole == DivInt([q |-> ZeroMag, r |-> x.mag], y.mag, k - 1, 0)
        all   == DivFrac(whole, y.mag, 59)
        twice == MagDouble(all.r)
        below == IF all.r = ZeroMag THEN Exact
                 ELSE IF MagLess(twice, y.mag) THEN BelowHalf
                 ELSE IF twice = y.mag THEN Half
                 ELSE AboveHalf
    IN  MkFloat(x.neg # y.neg, RoundMag(all.q, below[1], below[2]))

\* Division of two float64 values as numpy divides: x / 0 is inf (nan for
\* 0 / 0), and nan gives nan.
FDiv(x, y) ==
    IF x = FNaN \/ y = FNaN THEN FNaN
    ELSE IF y.mag = ZeroMag THEN (IF x.mag = ZeroMag THEN FNaN ELSE FInf)
    ELSE IF x = FInf THEN FInf
    ELSE FDivFinite(x, y)

\* One step of the product of x and the bits of y below bit 59: the
\* product so far and bit i of y times x, halved; the bit shifted out last
\* (half) and whether a lower bit was set (sticky) are kept.
MulBit(st, x, y, i) ==
    LET s == IF MagBit(y, i) = 1 THEN MagAdd(st.acc, x) ELSE st.acc
    IN  [acc |-> MagHalf(s), half |-> s[3] % 2, sticky |-> st.sticky \/ st.half = 1]

\* The steps lo..hi, by halves.
RECURSIVE MulLow(_, _, _, _, _)
MulLow(st, x, y, lo, hi) ==
    IF lo > hi THEN st
    ELSE IF lo = hi THEN MulBit(st, x, y, lo)
    ELSE LET mid  == (lo + hi) \div 2
             left == MulLow(st, x, y, lo, mid)
         IN  IF left.acc[1] >= 0 THEN MulLow(left, x, y, mid + 1, hi) ELSE left

\* The bits lo..hi of y, all 59 or above: bit i adds x * 2^(i - 59).
RECURSIVE MulHigh(_, _, _, _, _)
MulHigh(acc, x, y, lo, hi) ==
    IF lo > hi THEN acc
    ELSE IF lo = hi
    THEN (IF MagBit(y, lo) = 1 THEN MagAdd(acc, MagShl(x, lo - 59)) ELSE acc)
    ELSE LET mid  == (lo + hi) \div 2
             left == MulHigh(acc, x, y, lo, mid)
         IN  IF left[1] >= 0 THEN MulHigh(left, x, y, mid + 1, hi) ELSE left

FMulFinite(x, y) ==
    LET low   == MulLow([acc |-> ZeroMag, half |-> 0, sticky |-> FALSE], x.mag, y.mag, 0, 58)
        high  == MulHigh(low.acc, x.mag, y.mag, 59, MagBitLen(y.mag) - 1)
        below == IF low.half = 0 THEN (IF low.sticky THEN BelowHalf ELSE Exact)
                 ELSE (IF low.sticky THEN AboveHalf ELSE Half)
    IN  MkFloat(x.neg # y.neg, RoundMag(high, below[1], below[2]))

\* x * y as numpy multiplies: nan gives nan, inf stays inf.
FMul(x, y) ==
    IF x = FNaN \/ y = FNaN THEN FNaN
    ELSE IF x = FInf \/ y = FInf
         THEN (IF x.mag = ZeroMag \/ y.mag = ZeroMag THEN FNaN ELSE FInf)
    ELSE FMulFinite(x, y)

\* numpy.rint: the nearest integer, ties to even.
FRint(x) ==
    IF ~IsFinite(x) THEN x
    ELSE LET c    == x.mag[1] \div 2^19
             frac == <<x.mag[1] % 2^19, x.mag[2], x.mag[3]>>
             half == <<2^18, 0, 0>>
             up   == MagLess(half, frac) \/ (frac = half /\ c % 2 = 1)
         IN  MkFloat(x.neg, <<(IF up THEN c + 1 ELSE c) * 2^19, 0, 0>>)

\* Series.round(2): numpy.round(x, 2) is rint(x * 100) / 100.
FRound2(x) == FDiv(FRint(FMul(x, FromInt(100))), FromInt(100))

\* ------------------------------------------------------------------------
\* Cell values
\* ------------------------------------------------------------------------

\* Order IDs and other text compared by prefix or order are sequences of
\* character codes; an empty cell of such a column is NaN.
NaN == <<>>

Str_nan == <<110, 97, 110>>

Str_MEM == <<77, 69, 77>>

\* Series.astype(str): str(nan) is 'nan'.
AsStr(v) == IF v = NaN THEN Str_nan ELSE v

\* str.startswith
StartsWith(s, prefix) ==
    /\ Len(s) >= Len(prefix)
    /\ SubSeq(s, 1, Len(prefix)) = prefix

\* Order of two keys as the grouper's sort sees it.
RECURSIVE KeyLess(_, _)
KeyLess(a, b) ==
    IF b = <<>> THEN FALSE
    ELSE IF a = <<>> THEN TRUE
    ELSE IF Head(a) # Head(b) THEN Head(a) < Head(b)
    ELSE KeyLess(Tail(a), Tail(b))

\* An empty cell of a descriptive text column.
NullStr == ""

\* Date cells: a timestamp, an empty cell, or text that is no date.
Timestamp(y, m, d) == [kind |-> "ts", y |-> y, m |-> m, d |-> d]

NaT == [kind |-> "NaT", y |-> 0, m |-> 0, d |-> 0]

EmptyDate == [kind |-> "nan", y |-> 0, m |-> 0, d |-> 0]

TextDate == [kind |-> "text", y |-> 0, m |-> 0, d |-> 0]

\* pd.to_datetime of one cell (errors='raise' is the default).
ToDatetimeRaises(cell) == cell.kind = "text"

ToDatetime(cell) == IF cell.kind = "ts" THEN cell ELSE NaT

\* Series.dt.to_period('M'): <<year, month>>, or NaT.
NaTPeriod == <<>>

ToPeriodM(ts) == IF ts.kind = "ts" THEN <<ts.y, ts.m>> ELSE NaTPeriod

\* target_month = "2025-08", parsed as a monthly period by the comparison.
target_month == <<2025, 8>>

\* ------------------------------------------------------------------------
\* DataFrame operations of the POS pipeline
\* ------------------------------------------------------------------------

\* df['Order ID']: the values of the column, in row order.
OrderIDColumn(df) == [i \in 1..Len(df) |-> df[i].OrderID]

\* Series.isin(values)
IsIn(v, values) == \E i \in 1..Len(values) : values[i] = v

\* prepare_transaction_data, steps 1-3: the 'pos' rows, with 'Transaction
\* Type' and 'Module' added, restricted to Module == 'pos'.
ModuleOf(r) ==
    IF StartsWith(AsStr(r.OrderID), Str_MEM) THEN "memberships" ELSE r.Source

WithModule(r) ==
    [idx |-> r.idx, OrderID |-> r.OrderID, Amount |-> r.Amount,
     TransactionDate |-> r.TransactionDate, Location |-> r.Location,
     PaymentType |-> r.PaymentType, PaymentGateway |-> r.PaymentGateway,
     Source |-> r.Source, TransactionType |-> "sale", Module |-> ModuleOf(r)]

IsPosSource(r) == r.Source = "pos"

IsPosModule(r) == r.Module = "pos"

TransPosModule(WT) ==
    LET trans_pos_df == SelectSeq(WT, IsPosSource)
        with_module  == [i \in 1..Len(trans_pos_df) |-> WithModule(trans_pos_df[i])]
    IN  SelectSeq(with_module, IsPosModule)

\* prepare_transaction_data, step 4: the date columns.
WithTransMonth(r) ==
    [idx |-> r.idx, OrderID |-> r.OrderID, Amount |-> r.Amount,
     TransactionDate |-> ToDatetime(r.TransactionDate), Location |-> r.Location,
     PaymentType |-> r.PaymentType, PaymentGateway |-> r.PaymentGateway,
     Source |-> r.Source, TransactionType |-> r.TransactionType,
     Module |-> r.Module, Month |-> ToPeriodM(ToDatetime(r.TransactionDate))]

TransDatesRaise(df) == \E i \in 1..Len(df) : ToDatetimeRaises(df[i].TransactionDate)

\* prepare_tax_data
IsPosModuleName(r) == r.ModuleName = "pos"

WithTaxMonth(r) ==
    [idx |-> r.idx, OrderID |-> r.OrderID, Date |-> ToDatetime(r.Date),
     TotalSum |-> r.TotalSum, Tip |-> r.Tip, Tax |-> r.Tax,
     ModuleName |-> r.ModuleName, Month |-> ToPeriodM(ToDatetime(r.Date))]

TaxDatesRaise(df) == \E i \in 1..Len(df) : ToDatetimeRaises(df[i].Date)

\* filter_august_data
InTargetMonth_MonthOnly(r) == r.Month # NaTPeriod /\ r.Month[2] = target_month[2]

InTargetMonth(r) == r.Month = target_month

FilterAugust(df) == SelectSeq(df, InTargetMonth)

\* group_transaction_data: groupby('Order ID') drops rows with a NaN key and
\* sorts the groups by key; 'sum' accumulates in row order with a
\* compensation term, 'first' keeps the first non-null value of a column.
FirstStr(kept, v) == IF kept = NullStr THEN v ELSE kept

FirstDate(kept, v) == IF kept.kind = "ts" THEN kept ELSE v

NewGroup(r) ==
    [OrderID |-> r.OrderID, Amount |-> FAdd(FZero, r.Amount), comp |-> FZero,
     TransactionDate |-> r.TransactionDate, Location |-> r.Location,
     PaymentType |-> r.PaymentType, PaymentGateway |-> r.PaymentGateway]

GroupAddRow_AmountFirst(g, r) ==
    [OrderID |-> g.OrderID, Amount |-> g.Amount, comp |-> g.comp,
     TransactionDate |-> FirstDate(g.TransactionDate, r.TransactionDate),
     Location |-> FirstStr(g.Location, r.Location),
     PaymentType |-> FirstStr(g.PaymentType, r.PaymentType),
     PaymentGateway |-> FirstStr(g.PaymentGateway, r.PaymentGateway)]

GroupAddRow(g, r) ==
    LET y == FSub(r.Amount, g.comp)
        t == FAdd(g.Amount, y)
    IN  [OrderID |-> g.OrderID, Amount |-> t, comp |-> FSub(FSub(t, g.Amount), y),
         TransactionDate |-> FirstDate(g.TransactionDate, r.TransactionDate),
         Location |-> FirstStr(g.Location, r.Location),
         PaymentType |-> FirstStr(g.PaymentType, r.PaymentType),
         PaymentGateway |-> FirstStr(g.PaymentGateway, r.PaymentGateway)]

InsertGroup(groups, g) ==
    LET before == SelectSeq(groups, LAMBDA x : KeyLess(x.OrderID, g.OrderID))
        after  == SelectSeq(groups, LAMBDA x : ~KeyLess(x.OrderID, g.OrderID))
    IN  before \o <<g>> \o after

GroupStep_NoMerge(groups, r) ==
    IF r.OrderID = NaN THEN groups ELSE InsertGroup(groups, NewGroup(r))

GroupStep(groups, r) ==
    IF r.OrderID = NaN THEN groups
    ELSE IF \E i \in 1..Len(groups) : groups[i].OrderID = r.OrderID
    THEN [i \in 1..Len(groups) |->
            IF groups[i].OrderID = r.OrderID THEN GroupAddRow(groups[i], r)
            ELSE groups[i]]
    ELSE InsertGroup(groups, NewGroup(r))

\* The groups after the rows lo..hi of df are added, in row order, to groups.
\* The range is halved to keep the evaluation shallow, and the groups of the
\* first half are computed (the test of their length) before the second half
\* is added: the rows are still added one by one from the first to the last.
RECURSIVE GroupRange(_, _, _, _)
GroupRange(groups, df, lo, hi) ==
    IF lo > hi THEN groups
    ELSE IF lo = hi THEN GroupStep(groups, df[lo])
    ELSE LET mid  == (lo + hi) \div 2
             left == GroupRange(groups, df, lo, mid)
         IN  IF Len(left) >= 0 THEN GroupRange(left, df, mid + 1, hi) ELSE left

GroupFold(df, n) == GroupRange(<<>>, df, 1, n)

GroupedRow(g) ==
    [OrderID |-> g.OrderID, Amount |-> g.Amount,
     TransactionDate |-> g.TransactionDate, Location |-> g.Location,
     PaymentType |-> g.PaymentType, PaymentGateway |-> g.PaymentGateway]

GroupByOrderID(df) ==
    LET groups == GroupFold(df, Len(df))
    IN  [i \in 1..Len(groups) |-> GroupedRow(groups[i])]

\* find_missing_records
MissingInTax_NotNegated(G, T) ==
    SelectSeq(G, LAMBDA g : IsIn(g.OrderID, OrderIDColumn(T)))

MissingInTax(G, T) ==
    SelectSeq(G, LAMBDA g : ~IsIn(g.OrderID, OrderIDColumn(T)))

\* find_amount_mismatches: the inner merge keeps the order of the left keys
\* and, for each, the matching right rows in their order.
MergedRow(g, t) ==
    [OrderID |-> g.OrderID, Amount |-> g.Amount,
     TransactionDate |-> g.TransactionDate, Location |-> g.Location,
     TotalSum |-> t.TotalSum, Tip |-> t.Tip, Tax |-> t.Tax]

RECURSIVE MergeInner_FirstMatch(_, _)
MergeInner_FirstMatch(left, right) ==
    IF left = <<>> THEN <<>>
    ELSE LET g       == Head(left)
             matches == SelectSeq(right, LAMBDA t : t.OrderID = g.OrderID)
         IN  <<MergedRow(g, matches[1])>> \o MergeInner_FirstMatch(Tail(left), right)

RECURSIVE MergeInner(_, _)
MergeInner(left, right) ==
    IF left = <<>> THEN <<>>
    ELSE LET g       == Head(left)
             matches == SelectSeq(right, LAMBDA t : t.OrderID = g.OrderID)
         IN  [i \in 1..Len(matches) |-> MergedRow(g, matches[i])]
             \o MergeInner(Tail(left), right)

WithDiff_TaxMinusTrans(r) ==
    LET diff == FSub(r.TotalSum, r.Amount)
    IN  [OrderID |-> r.OrderID, Amount |-> r.Amount,
         TransactionDate |-> r.TransactionDate, Location |-> r.Location,
         TotalSum |-> r.TotalSum, Tip |-> r.Tip, Tax |-> r.Tax,
         Amount_Diff |-> diff, Abs_Diff |-> FAbs(diff)]

WithDiff(r) ==
    LET diff == FSub(r.Amount, r.TotalSum)
    IN  [OrderID |-> r.OrderID, Amount |-> r.Amount,
         TransactionDate |-> r.TransactionDate, Location |-> r.Location,
         TotalSum |-> r.TotalSum, Tip |-> r.Tip, Tax |-> r.Tax,
         Amount_Diff |-> diff, Abs_Diff |-> FAbs(diff)]

MergedComparison(G, T) ==
    LET common_orders     == SelectSeq(G, LAMBDA g : IsIn(g.OrderID, OrderIDColumn(T)))
        common_tax_orders == SelectSeq(T, LAMBDA t : IsIn(t.OrderID, OrderIDColumn(G)))
        merged            == MergeInner(common_orders, common_tax_orders)
    IN  [i \in 1..Len(merged) |-> WithDiff(merged[i])]

\* The threshold literal 0.01 as a float64.
Threshold == FromCents(1)

IsSignificant(r) == FGreater(r.Abs_Diff, Threshold)

SignificantMismatches(merged) == SelectSeq(merged, IsSignificant)

\* generate_summary_report: the counts printed and the findings chosen.
SummaryReport(G, T, missing, merged, significant) ==
    [unique_orders       |-> Len(G),
     tax_records         |-> Len(T),
     matching_orders     |-> Len(merged),
     missing_orders      |-> Len(missing),
     orders_with_diffs   |-> Len(significant),
     missing_finding     |-> Len(missing) > 0,
     mismatch_finding    |-> Len(significant) > 0,
     missing_actions     |-> Len(missing) > 0,
     mismatch_actions    |-> Len(significant) > 0,
     no_action_required  |-> Len(missing) = 0 /\ Len(significant) = 0]

\* ------------------------------------------------------------------------
\* Bounds and input files
\* ------------------------------------------------------------------------

\* Rows of the transaction and of the tax export.
MaxTransRows == 2

MaxTaxRows == 2

\* Rows of the two exports when the rows vary in source, module and date.
MaxFilterTransRows == 2

MaxFilterTaxRows == 1

Id_A1 == <<65, 49>>

Id_B2 == <<66, 50>>

Id_C9 == <<67, 57>>

Id_MEM1 == <<77, 69, 77, 49>>

Id_ME1 == <<77, 69, 49>>

Aug2025 == Timestamp(2025, 8, 15)

Jul2025 == Timestamp(2025, 7, 31)

Aug2024 == Timestamp(2024, 8, 15)

\* One row of 'Wood - TransReport.xlsx' (without its index).
TransCell(id, cents, date, loc, source) ==
    [OrderID |-> id, Amount |-> FromCents(cents), TransactionDate |-> date,
     Location |-> loc, PaymentType |-> "physicalCard",
     PaymentGateway |-> "stripe", Source |-> source]

\* One row of 'Wood - Tax Report.xlsx' (without its index).
TaxCell(id, cents, date, module) ==
    [OrderID |-> id, Date |-> date, TotalSum |-> FromCents(cents),
     Tip |-> FZero, Tax |-> FromCents(8), ModuleName |-> module]

\* August 'pos' rows that differ in order and amount, a row without an
\* Order ID, a July row, and a row whose date cell is text.
ReconTransCells ==
    {TransCell(id, c, Aug2025, "Main", "pos") : id \in {Id_A1, Id_B2}, c \in {100, 101}}
    \cup {TransCell(NaN, 100, Aug2025, "Main", "pos"),
          TransCell(Id_A1, 100, Jul2025, "Main", "pos"),
          TransCell(Id_A1, 100, TextDate, "Main", "pos")}

ReconTaxCells ==
    {TaxCell(id, c, Aug2025, "pos") : id \in {Id_A1, Id_B2}, c \in {100, 200}}
    \cup {TaxCell(Id_A1, 10, Aug2025, "pos"),
          TaxCell(Id_C9, 100, Aug2025, "pos"),
          TaxCell(Id_B2, 100, Jul2025, "pos"),
          TaxCell(Id_A1, 100, TextDate, "pos")}

\* Rows that differ in source, Order ID prefix, module and date.
FilterTransCells ==
    {TransCell(id, 100, Aug2025, "Main", "pos") : id \in {Id_A1, Id_MEM1, Id_ME1, NaN}}
    \cup {TransCell(id, 100, Aug2025, "Main", "online") : id \in {Id_A1, Id_MEM1}}
    \cup {TransCell(Id_A1, 100, d, "Main", "pos") :
            d \in {Jul2025, Aug2024, EmptyDate, TextDate}}
    \cup {TransCell(Id_A1, 100, TextDate, "Main", "online")}
    \cup {TransCell(Id_A1, 100, Aug2025, NullStr, "pos")}

FilterTaxCells ==
    {TaxCell(Id_A1, 100, d, "pos") :
        d \in {Aug2025, Jul2025, Aug2024, EmptyDate, TextDate}}
    \cup {TaxCell(Id_A1, 100, d, "memberships") : d \in {Aug2025, TextDate}}

\* The columns the scripts expect in the two exports.
TransColumnNames ==
    {"Order ID", "Amount", "Transaction Date", "Location", "Payment Type",
     "Payment Gateway", "Source"}

TaxColumnNames == {"Order ID", "Date", "Total Sum", "Tip", "Tax", "Module Name"}

\* The header of a sheet: every expected column, or all but one.
Headers(names) == {names} \cup {names \ {c} : c \in names}

\* The tables of at most n rows over a set of cells.
Tables(cells, n) == UNION {[1..k -> cells] : k \in 0..n}

\* read_excel gives every row its position as index.
IndexTrans(cells) ==
    [i \in 1..Len(cells) |->
        [idx |-> i, OrderID |-> cells[i].OrderID, Amount |-> cells[i].Amount,
         TransactionDate |-> cells[i].TransactionDate,
         Location |-> cells[i].Location, PaymentType |-> cells[i].PaymentType,
         PaymentGateway |-> cells[i].PaymentGateway, Source |-> cells[i].Source]]

IndexTax(cells) ==
    [i \in 1..Len(cells) |->
        [idx |-> i, OrderID |-> cells[i].OrderID, Date |-> cells[i].Date,
         TotalSum |-> cells[i].TotalSum, Tip |-> cells[i].Tip,
         Tax |-> cells[i].Tax, ModuleName |-> cells[i].ModuleName]]

\* ------------------------------------------------------------------------
\* State: the locals of main() and its position
\* ------------------------------------------------------------------------

VARIABLES
    TransReportFile,         \* rows of 'Wood - TransReport.xlsx'
    TaxReportFile,           \* rows of 'Wood - Tax Report.xlsx'
    pc,                      \* position of main()
    WoodTrans,
    WoodTax,
    trans_pos_module_df,
    tax_pos_df,
    trans_aug,
    tax_aug,
    trans_aug_grouped,
    missing_in_tax,
    merged_comparison,
    significant_mismatches,
    summary,                 \* what generate_summary_report printed
    second,                  \* results of a second application of the reconciler
    TransColumns,            \* header of 'Wood - TransReport.xlsx'
    TaxColumns,              \* header of 'Wood - Tax Report.xlsx'
    error,                   \* the exception caught by main()
    stdout,                  \* the closing messages printed so far
    exit_status,             \* exit status of the process, once it has ended
    story,                   \* the flowables of the PDF being built
    filename,                \* name of the PDF of this run
    disk,                    \* the PDF files written so far, by name
    run,                     \* number of this run of the program
    trans_filtered,          \* argument of generate_booking_report_pdf
    MembershipFile,          \* 'Memebership.xlsx': its columns and rows
    all_membership_data,     \* the frame membership.py read from it
    august_2025,             \* the filtered frame of membership.py
    consulted,               \* the date columns membership.py has converted
    matched,                 \* Order IDs of the membership transactions with a tax record
    not_matched,             \* Order IDs of the membership transactions without one
    new_count,
    recurring_count,
    membership_summary_df    \* the frame create_membership_summary returns

files == <<TransReportFile, TaxReportFile, TransColumns, TaxColumns>>

process == <<error, stdout, exit_status>>

\* State of the PDF generators, which main() of the POS script never touches.
report == <<story, filename, disk, run>>

\* State of the booking and membership scripts.
\* The locals of the scripts on the membership transactions.
tallies == <<matched, not_matched, new_count, recurring_count, membership_summary_df>>

\* What membership.py never touches.
other_scripts == <<trans_filtered, tallies>>

standalone == <<trans_filtered, MembershipFile, all_membership_data, august_2025, consulted,
                tallies>>

elsewhere == <<report, standalone>>

loaded == <<WoodTrans, WoodTax>>

prepared == <<trans_pos_module_df, tax_pos_df>>

filtered == <<trans_aug, tax_aug>>

results == <<missing_in_tax, merged_comparison, significant_mismatches>>

vars == <<TransReportFile, TaxReportFile, pc, WoodTrans, WoodTax,
          trans_pos_module_df, tax_pos_df, trans_aug, tax_aug,
          trans_aug_grouped, missing_in_tax, merged_comparison,
          significant_mismatches, summary, second,
          TransColumns, TaxColumns, error, stdout, exit_status,
          story, filename, disk, run,
          trans_filtered, MembershipFile, all_membership_data, august_2025,
          consulted, matched, not_matched, new_count, recurring_count,
          membership_summary_df>>

\* A local that is not bound yet.
Unbound == <<>>

NoSummary == [printed |-> FALSE]

NoSecond == [applied |-> FALSE]

NoError == "None"

\* No exit status yet: the process is running.
Running == -1

\* "Analysis completed successfully!" (line 236) and "Error during
\* analysis: ..." (line 240).
AnalysisCompleted == "Analysis completed successfully!"

ErrorDuringAnalysis == "Error during analysis"

\* A file name: its literal text and the timestamp formatted into it.
FileName(text, stamp) == [prefix |-> text, timestamp |-> stamp]

\* The timestamp of a name that has none.
NoStamp == -1

\* filename=None, and a name not made yet.
None == FileName("", NoStamp)

\* The sheets of a run that reads neither.
NoSheets ==
    /\ TransReportFile = <<>>
    /\ TaxReportFile = <<>>
    /\ TransColumns = TransColumnNames
    /\ TaxColumns = TaxColumnNames

MainLocalsUnbound ==
    /\ WoodTrans = Unbound
    /\ WoodTax = Unbound
    /\ trans_pos_module_df = Unbound
    /\ tax_pos_df = Unbound
    /\ trans_aug = Unbound
    /\ tax_aug = Unbound
    /\ trans_aug_grouped = Unbound
    /\ missing_in_tax = Unbound
    /\ merged_comparison = Unbound
    /\ significant_mismatches = Unbound
    /\ summary = NoSummary
    /\ second = NoSecond

ProcessStarts ==
    /\ error = NoError
    /\ stdout = <<>>
    /\ exit_status = Running

\* No PDF written yet, in the first run.
NothingWritten ==
    /\ story = <<>>
    /\ disk = {}
    /\ run = 1

TalliesUnbound ==
    /\ matched = {}
    /\ not_matched = {}
    /\ new_count = 0
    /\ recurring_count = 0
    /\ membership_summary_df = Unbound

StandaloneUnbound ==
    /\ trans_filtered = Unbound
    /\ MembershipFile = Unbound
    /\ all_membership_data = Unbound
    /\ august_2025 = Unbound
    /\ consulted = {}
    /\ TalliesUnbound

LocalsUnbound ==
    /\ MainLocalsUnbound
    /\ ProcessStarts
    /\ NothingWritten
    /\ filename = None
    /\ StandaloneUnbound

\* Entry of main() of the POS script.
InitLocals ==
    /\ pc = "start"
    /\ LocalsUnbound

\* Both sheets complete.
FullHeaders ==
    /\ TransColumns = TransColumnNames
    /\ TaxColumns = TaxColumnNames

\* One August 'pos' row in each export, and a column absent from a sheet.
AbsentColumnFiles ==
    /\ TransReportFile = <<TransCell(Id_A1, 100, Aug2025, "Main", "pos")>>
    /\ TaxReportFile \in Tables({TaxCell(Id_A1, 100, Aug2025, "pos")}, 1)
    /\ TransColumns \in Headers(TransColumnNames)
    /\ TaxColumns \in Headers(TaxColumnNames)
    /\ ~FullHeaders

InitAbsentColumn == AbsentColumnFiles /\ InitLocals

Init ==
    \/ /\ TransReportFile \in Tables(ReconTransCells, MaxTransRows)
       /\ TaxReportFile \in Tables(ReconTaxCells, MaxTaxRows)
       /\ FullHeaders
       /\ InitLocals
    \/ InitAbsentColumn

InitFilter ==
    \/ /\ TransReportFile \in Tables(FilterTransCells, MaxFilterTransRows)
       /\ TaxReportFile \in Tables(FilterTaxCells, MaxFilterTaxRows)
       /\ FullHeaders
       /\ InitLocals
    \/ InitAbsentColumn

\* ------------------------------------------------------------------------
\* main(): one action per call, and the except clause
\* ------------------------------------------------------------------------

\* An except clause that starts the pipeline again.
Caught_Retries(e) ==
    /\ error' = e
    /\ stdout' = Append(stdout, ErrorDuringAnalysis)
    /\ pc' = "start"

\* The except clause of main() (lines 239-240): the diagnostic is printed.
Caught(e) ==
    /\ error' = e
    /\ stdout' = Append(stdout, ErrorDuringAnalysis)
    /\ pc' = "failed"

load_data ==
    /\ pc = "start"
    /\ WoodTrans' = IndexTrans(TransReportFile)
    /\ WoodTax' = IndexTax(TaxReportFile)
    /\ pc' = "loaded"
    /\ UNCHANGED <<files, elsewhere, process, prepared, filtered, trans_aug_grouped, results, summary, second>>

\* The failed read is reported and main() goes on with empty frames.
load_data_raises_Continues ==
    /\ pc = "start"
    /\ error' = "FileNotFoundError"
    /\ stdout' = Append(stdout, ErrorDuringAnalysis)
    /\ pc' = "loaded"
    /\ UNCHANGED <<files, elsewhere, exit_status, loaded, prepared, filtered, trans_aug_grouped, results, summary, second>>

\* read_excel raises (file missing or unreadable).
load_data_raises ==
    /\ pc = "start"
    /\ Caught("FileNotFoundError")
    /\ UNCHANGED <<files, elsewhere, exit_status, loaded, prepared, filtered, trans_aug_grouped, results, summary, second>>

\* The columns prepare_transaction_data reads (lines 37, 42, 51).
TransPrepareColumns == {"Source", "Order ID", "Transaction Date"}

\* The Module column is assigned on the frame passed in (as line 31 of
\* Simple_Membership_PDF.py does) instead of on a copy.
prepare_transaction_data_InPlace ==
    /\ pc = "loaded"
    /\ TransPrepareColumns \subseteq TransColumns
    /\ ~TransDatesRaise(TransPosModule(WoodTrans))
    /\ WoodTrans' = [i \in 1..Len(WoodTrans) |-> WithModule(WoodTrans[i])]
    /\ trans_pos_module_df' =
          LET df == TransPosModule(WoodTrans)
          IN  [i \in 1..Len(df) |-> WithTransMonth(df[i])]
    /\ pc' = "trans_prepared"
    /\ UNCHANGED <<files, elsewhere, process, WoodTax, tax_pos_df, filtered, trans_aug_grouped,
                   results, summary, second>>

prepare_transaction_data ==
    /\ pc = "loaded"
    /\ TransPrepareColumns \subseteq TransColumns
    /\ ~TransDatesRaise(TransPosModule(WoodTrans))
    /\ trans_pos_module_df' =
          LET df == TransPosModule(WoodTrans)
          IN  [i \in 1..Len(df) |-> WithTransMonth(df[i])]
    /\ pc' = "trans_prepared"
    /\ UNCHANGED <<files, elsewhere, process, loaded, tax_pos_df, filtered, trans_aug_grouped, results, summary, second>>

\* A column is absent (KeyError), or pd.to_datetime raises on a cell of the
\* 'pos' rows that is no date.
prepare_transaction_data_raises ==
    /\ pc = "loaded"
    /\ IF TransPrepareColumns \subseteq TransColumns
       THEN TransDatesRaise(TransPosModule(WoodTrans)) /\ Caught("ValueError")
       ELSE Caught("KeyError")
    /\ UNCHANGED <<files, elsewhere, exit_status, loaded, prepared, filtered, trans_aug_grouped, results, summary, second>>

\* The columns prepare_tax_data reads (lines 63, 64).
TaxPrepareColumns == {"Module Name", "Date"}

prepare_tax_data ==
    /\ pc = "trans_prepared"
    /\ TaxPrepareColumns \subseteq TaxColumns
    /\ ~TaxDatesRaise(SelectSeq(WoodTax, IsPosModuleName))
    /\ tax_pos_df' =
          LET df == SelectSeq(WoodTax, IsPosModuleName)
          IN  [i \in 1..Len(df) |-> WithTaxMonth(df[i])]
    /\ pc' = "tax_prepared"
    /\ UNCHANGED <<files, elsewhere, process, loaded, trans_pos_module_df, filtered, trans_aug_grouped, results, summary, second>>

prepare_tax_data_raises ==
    /\ pc = "trans_prepared"
    /\ IF TaxPrepareColumns \subseteq TaxColumns
       THEN TaxDatesRaise(SelectSeq(WoodTax, IsPosModuleName)) /\ Caught("ValueError")
       ELSE Caught("KeyError")
    /\ UNCHANGED <<files, elsewhere, exit_status, loaded, prepared, filtered, trans_aug_grouped, results, summary, second>>

filter_august_data ==
    /\ pc = "tax_prepared"
    /\ trans_aug' = FilterAugust(trans_pos_module_df)
    /\ tax_aug' = FilterAugust(tax_pos_df)
    /\ pc' = "filtered"
    /\ UNCHANGED <<files, elsewhere, process, loaded, prepared, trans_aug_grouped, results, summary, second>>

\* The key and the aggregated columns of the groupby (lines 89-94).
GroupColumns ==
    {"Order ID", "Amount", "Transaction Date", "Location", "Payment Type",
     "Payment Gateway"}

group_transaction_data ==
    /\ pc = "filtered"
    /\ GroupColumns \subseteq TransColumns
    /\ trans_aug_grouped' = GroupByOrderID(trans_aug)
    /\ pc' = "grouped"
    /\ UNCHANGED <<files, elsewhere, process, loaded, prepared, filtered, results, summary, second>>

group_transaction_data_raises ==
    /\ pc = "filtered"
    /\ ~(GroupColumns \subseteq TransColumns)
    /\ Caught("KeyError")
    /\ UNCHANGED <<files, elsewhere, exit_status, loaded, prepared, filtered, trans_aug_grouped, results, summary, second>>

find_missing_records ==
    /\ pc = "grouped"
    /\ "Order ID" \in TaxColumns
    /\ missing_in_tax' = MissingInTax(trans_aug_grouped, tax_aug)
    /\ pc' = "missing_found"
    /\ UNCHANGED <<files, elsewhere, process, loaded, prepared, filtered, trans_aug_grouped,
                   merged_comparison, significant_mismatches, summary, second>>

\* tax_aug['Order ID'] (line 106) on a sheet without that column.
find_missing_records_raises ==
    /\ pc = "grouped"
    /\ "Order ID" \notin TaxColumns
    /\ Caught("KeyError")
    /\ UNCHANGED <<files, elsewhere, exit_status, loaded, prepared, filtered, trans_aug_grouped, results, summary, second>>

\* The tax columns selected for the merge (line 135).
MergeTaxColumns == {"Order ID", "Total Sum", "Tip", "Tax"}

find_amount_mismatches_InPlace ==
    /\ pc = "missing_found"
    /\ MergeTaxColumns \subseteq TaxColumns
    /\ merged_comparison' = MergedComparison(trans_aug_grouped, tax_aug)
    /\ significant_mismatches' =
          SignificantMismatches(MergedComparison(trans_aug_grouped, tax_aug))
    /\ trans_aug_grouped' =
          SelectSeq(trans_aug_grouped,
                    LAMBDA g : IsIn(g.OrderID, OrderIDColumn(tax_aug)))
    /\ pc' = "mismatches_found"
    /\ UNCHANGED <<files, elsewhere, process, loaded, prepared, filtered, missing_in_tax, summary, second>>

find_amount_mismatches ==
    /\ pc = "missing_found"
    /\ MergeTaxColumns \subseteq TaxColumns
    /\ merged_comparison' = MergedComparison(trans_aug_grouped, tax_aug)
    /\ significant_mismatches' =
          SignificantMismatches(MergedComparison(trans_aug_grouped, tax_aug))
    /\ pc' = "mismatches_found"
    /\ UNCHANGED <<files, elsewhere, process, loaded, prepared, filtered, trans_aug_grouped,
                   missing_in_tax, summary, second>>

find_amount_mismatches_raises ==
    /\ pc = "missing_found"
    /\ ~(MergeTaxColumns \subseteq TaxColumns)
    /\ Caught("KeyError")
    /\ UNCHANGED <<files, elsewhere, exit_status, loaded, prepared, filtered, trans_aug_grouped, results, summary, second>>

generate_summary_report ==
    /\ pc = "mismatches_found"
    /\ summary' = [printed |-> TRUE,
                   text |-> SummaryReport(trans_aug_grouped, tax_aug, missing_in_tax,
                                          merged_comparison, significant_mismatches)]
    /\ pc' = "summarized"
    /\ UNCHANGED <<files, elsewhere, process, loaded, prepared, filtered, trans_aug_grouped, results, second>>

\* "Analysis completed successfully!" and the return of main().
main_completed ==
    /\ pc = "summarized"
    /\ stdout' = Append(stdout, AnalysisCompleted)
    /\ pc' = "done"
    /\ UNCHANGED <<files, elsewhere, error, exit_status, loaded, prepared, filtered, trans_aug_grouped, results, summary, second>>

\* The bare raise of line 241: the exception leaves main() and the module,
\* and the interpreter ends with status 1.
main_reraises ==
    /\ pc = "failed"
    /\ exit_status = Running
    /\ exit_status' = 1
    /\ UNCHANGED <<files, elsewhere, pc, error, stdout, loaded, prepared, filtered, trans_aug_grouped, results, summary, second>>

\* main() returned to line 244, the last of the module: status 0.
module_ends ==
    /\ pc = "done"
    /\ exit_status = Running
    /\ exit_status' = 0
    /\ UNCHANGED <<files, elsewhere, pc, error, stdout, loaded, prepared, filtered, trans_aug_grouped, results, summary, second>>

Next ==
    \/ load_data
    \/ load_data_raises
    \/ prepare_transaction_data
    \/ prepare_transaction_data_raises
    \/ prepare_tax_data
    \/ prepare_tax_data_raises
    \/ filter_august_data
    \/ group_transaction_data
    \/ group_transaction_data_raises
    \/ find_missing_records
    \/ find_missing_records_raises
    \/ find_amount_mismatches
    \/ find_amount_mismatches_raises
    \/ generate_summary_report
    \/ main_completed
    \/ main_reraises
    \/ module_ends

Spec == Init /\ [][Next]_vars

SpecFilter == InitFilter /\ [][Next]_vars

\* The reconciler applied once more to the same G and T.
reconcile_again ==
    /\ pc \in {"mismatches_found", "summarized", "done"}
    /\ ~second.applied
    /\ second' = [applied |-> TRUE,
                  missing_in_tax |-> MissingInTax(trans_aug_grouped, tax_aug),
                  merged_comparison |-> MergedComparison(trans_aug_grouped, tax_aug),
                  significant_mismatches |->
                      SignificantMismatches(MergedComparison(trans_aug_grouped, tax_aug))]
    /\ UNCHANGED <<files, elsewhere, process, pc, loaded, prepared, filtered, trans_aug_grouped, results, summary>>

NextTwice == Next \/ reconcile_again

SpecTwice == Init /\ [][NextTwice]_vars

\* ------------------------------------------------------------------------
\* Properties
\* ------------------------------------------------------------------------

AfterFilter == pc \in {"filtered", "grouped", "missing_found", "mismatches_found",
                       "summarized", "done"}

AfterGrouping == pc \in {"grouped", "missing_found", "mismatches_found",
                         "summarized", "done"}

AfterMissing == pc \in {"missing_found", "mismatches_found", "summarized", "done"}

AfterReconcile == pc \in {"mismatches_found", "summarized", "done"}

OrderIDs(df) == {df[i].OrderID : i \in 1..Len(df)}

Rows(df) == {df[i] : i \in 1..Len(df)}

\* C1: after find_missing_records and find_amount_mismatches, the rows of
\* matched plus the rows of missing_in_tax number the grouped orders, and no
\* grouped order is both matched and missing.
C1_MatchedPlusMissingIsG ==
    AfterReconcile =>
        /\ Len(merged_comparison) + Len(missing_in_tax) = Len(trans_aug_grouped)
        /\ OrderIDs(merged_comparison) \cap OrderIDs(missing_in_tax) = {}

\* C2: missing_in_tax holds exactly the grouped orders whose Order ID does
\* not occur among the Order IDs of the filtered tax records, each once and
\* in the order of G.
C2_MissingExactly ==
    AfterMissing =>
        /\ \A i \in 1..Len(trans_aug_grouped) :
              (trans_aug_grouped[i] \in Rows(missing_in_tax))
                 <=> (trans_aug_grouped[i].OrderID \notin OrderIDs(tax_aug))
        /\ Rows(missing_in_tax) \subseteq Rows(trans_aug_grouped)
        /\ Len(missing_in_tax) = Cardinality(Rows(missing_in_tax))

C2_Witness ==
    /\ pc = "missing_found"
    /\ Len(missing_in_tax) >= 1
    /\ Len(missing_in_tax) < Len(trans_aug_grouped)
    /\ OrderIDs(tax_aug) # OrderIDs(WoodTax)

\* The pairs (i, j) of a grouped order and a tax record with equal Order ID.
JoinPairs ==
    {p \in (1..Len(trans_aug_grouped)) \X (1..Len(tax_aug)) :
        trans_aug_grouped[p[1]].OrderID = tax_aug[p[2]].OrderID}

IsPairRow(r, g, t) ==
    /\ r.OrderID = g.OrderID
    /\ r.Amount = g.Amount
    /\ r.TransactionDate = g.TransactionDate
    /\ r.Location = g.Location
    /\ r.TotalSum = t.TotalSum
    /\ r.Tip = t.Tip
    /\ r.Tax = t.Tax

\* C3: matched is the inner join of G and T on Order ID: every row of
\* matched is a pair (g, t) with equal Order ID, every such pair has its row,
\* and a tax record whose Order ID is absent from G occurs in none of
\* matched, missing_in_tax and significant_mismatches.
C3_InnerJoin ==
    AfterReconcile =>
        /\ \A k \in 1..Len(merged_comparison) : \E p \in JoinPairs :
              IsPairRow(merged_comparison[k], trans_aug_grouped[p[1]], tax_aug[p[2]])
        /\ \A p \in JoinPairs : \E k \in 1..Len(merged_comparison) :
              IsPairRow(merged_comparison[k], trans_aug_grouped[p[1]], tax_aug[p[2]])
        /\ Len(merged_comparison) = Cardinality(JoinPairs)
        /\ \A id \in OrderIDs(tax_aug) \ OrderIDs(trans_aug_grouped) :
              id \notin OrderIDs(merged_comparison) \cup OrderIDs(missing_in_tax)
                        \cup OrderIDs(significant_mismatches)

C3_Witness ==
    /\ pc = "mismatches_found"
    /\ OrderIDs(tax_aug) \ OrderIDs(trans_aug_grouped) # {}
    /\ Len(merged_comparison) >= 1
    /\ OrderIDs(trans_aug_grouped) \ OrderIDs(tax_aug) # {}

\* The difference of two float64 values before any rounding.
ExactDiff(x, y) ==
    IF x.neg # y.neg THEN MkFloat(x.neg, MagAdd(x.mag, y.mag))
    ELSE IF MagLess(x.mag, y.mag) THEN MkFloat(~x.neg, MagSub(y.mag, x.mag))
    ELSE MkFloat(x.neg, MagSub(x.mag, y.mag))

\* A magnitude that a float64 holds: at most 53 significant bits.
Representable(mag) == mag[3] % (2^RoundShift(mag)) = 0

\* |a - b| is at most half a unit in the last place of a float64 near b.
WithinHalfUlp(a, b) ==
    LET d == IF MagLess(a, b) THEN MagSub(b, a) ELSE MagSub(a, b)
    IN  d[1] = 0 /\ d[2] = 0 /\ 2 * d[3] <= 2^RoundShift(b)

\* C4 as stated: for every pair (g, t) of matched, the stored Amount_Diff
\* equals g.Amount minus t.TotalSum exactly, and Abs_Diff its absolute value.
C4_ExactDifference ==
    AfterReconcile =>
        \A k \in 1..Len(merged_comparison) : \E p \in JoinPairs :
            LET r     == merged_comparison[k]
                exact == ExactDiff(trans_aug_grouped[p[1]].Amount, tax_aug[p[2]].TotalSum)
            IN  /\ r.OrderID = trans_aug_grouped[p[1]].OrderID
                /\ r.Amount_Diff = exact
                /\ r.Abs_Diff = [neg |-> FALSE, mag |-> exact.mag]

\* C4: for every pair (g, t) of matched, the stored Amount_Diff is g.Amount
\* minus t.TotalSum (transaction side minus tax side) with no rounding but
\* that of the float64 subtraction itself, which returns the difference
\* unchanged whenever a float64 holds it; Abs_Diff is its absolute value.
C4_AmountDiff ==
    AfterReconcile =>
        \A k \in 1..Len(merged_comparison) : \E p \in JoinPairs :
            LET r     == merged_comparison[k]
                exact == ExactDiff(trans_aug_grouped[p[1]].Amount, tax_aug[p[2]].TotalSum)
            IN  /\ r.OrderID = trans_aug_grouped[p[1]].OrderID
                /\ Representable(r.Amount_Diff.mag)
                /\ WithinHalfUlp(r.Amount_Diff.mag, exact.mag)
                /\ Representable(exact.mag) => r.Amount_Diff = exact
                /\ r.Amount_Diff.mag # ZeroMag => r.Amount_Diff.neg = exact.neg
                /\ r.Abs_Diff = [neg |-> FALSE, mag |-> r.Amount_Diff.mag]

C4_Witness ==
    /\ pc = "mismatches_found"
    /\ \E k \in 1..Len(merged_comparison) : merged_comparison[k].Amount_Diff.neg
    /\ \E k \in 1..Len(merged_comparison) :
          /\ ~merged_comparison[k].Amount_Diff.neg
          /\ merged_comparison[k].Amount_Diff.mag # ZeroMag

\* The cent amounts a decimal cell of the exports may hold.
MaxCents == 400

\* The decimal amounts, in cents, that a float64 is the value of.
DecimalCents(x) == {c \in 0..MaxCents : FromCents(c) = x}

AbsInt(n) == IF n < 0 THEN -n ELSE n

\* C5: significant_mismatches is exactly the set of matched pairs whose
\* amounts differ by more than 0.01: a pair of amounts a and b (in cents)
\* is significant iff |a - b| > 1, so a difference of exactly one cent is
\* never significant.
C5_SignificantIffAboveOneCent ==
    AfterReconcile =>
        \A k \in 1..Len(merged_comparison) :
            \A a \in DecimalCents(merged_comparison[k].Amount) :
                \A b \in DecimalCents(merged_comparison[k].TotalSum) :
                    (merged_comparison[k] \in Rows(significant_mismatches))
                        <=> (AbsInt(a - b) > 1)

\* The filtered rows that carry an Order ID, in row order.
RowsOfOrder(id) == SelectSeq(trans_aug, LAMBDA r : r.OrderID = id)

\* The float64 sum of the Amounts of the first n rows, accumulated in row
\* order with a compensation term.
RECURSIVE RunningSum(_, _)
RunningSum(rows, n) ==
    IF n = 0 THEN [s |-> FZero, c |-> FZero]
    ELSE LET prev == RunningSum(rows, n - 1)
             y    == FSub(rows[n].Amount, prev.c)
             t    == FAdd(prev.s, y)
         IN  [s |-> t, c |-> FSub(FSub(t, prev.s), y)]

\* C6: grouping is sum-preserving: for every Order ID of the filtered rows,
\* the Amount of its grouped order is the sum of the Amounts of all filtered
\* rows that carry that Order ID.
C6_SumPreserving ==
    AfterGrouping =>
        \A id \in OrderIDs(trans_aug) \ {NaN} :
            \E i \in 1..Len(trans_aug_grouped) :
                /\ trans_aug_grouped[i].OrderID = id
                /\ trans_aug_grouped[i].Amount =
                      RunningSum(RowsOfOrder(id), Len(RowsOfOrder(id))).s

C6_Witness ==
    /\ pc = "grouped"
    /\ \E id \in OrderIDs(trans_aug) \ {NaN} :
          /\ Len(RowsOfOrder(id)) = 2
          /\ RowsOfOrder(id)[1].Amount # RowsOfOrder(id)[2].Amount

\* C7: G holds exactly one grouped order for each distinct Order ID of the
\* filtered rows: none twice, none absent.
C7_OnePerOrderID ==
    AfterGrouping =>
        /\ OrderIDs(trans_aug_grouped) = OrderIDs(trans_aug) \ {NaN}
        /\ Len(trans_aug_grouped) = Cardinality(OrderIDs(trans_aug_grouped))

C7_Witness ==
    /\ pc = "grouped"
    /\ Len(trans_aug) = 2
    /\ trans_aug[1].OrderID = trans_aug[2].OrderID
    /\ trans_aug[1].OrderID # NaN

\* C8: empty inputs give empty results and no error: with T empty,
\* missing_in_tax is all of G and matched and significant_mismatches are
\* empty; with G empty all three are empty; and each reconciler step and the
\* summary can be taken.  An empty T is a table of no rows that has the tax
\* columns.
C8_EmptyInputs ==
    LET empty == /\ tax_aug = <<>> \/ trans_aug_grouped = <<>>
                 /\ MergeTaxColumns \subseteq TaxColumns
        none  == <<>>
    IN  /\ (AfterMissing /\ tax_aug = <<>>) => missing_in_tax = trans_aug_grouped
        /\ (AfterMissing /\ trans_aug_grouped = <<>>) => missing_in_tax = none
        /\ (AfterReconcile /\ empty) =>
              merged_comparison = none /\ significant_mismatches = none
        /\ (pc = "grouped" /\ empty) => ENABLED find_missing_records
        /\ (pc = "missing_found" /\ empty) => ENABLED find_amount_mismatches
        /\ (pc = "mismatches_found" /\ empty) => ENABLED generate_summary_report
        /\ (pc = "summarized" /\ empty) =>
              /\ ENABLED main_completed
              /\ summary.text.missing_orders = Len(trans_aug_grouped)
              /\ summary.text.matching_orders = 0

C8_Witness ==
    /\ pc = "done"
    /\ tax_aug = <<>>
    /\ Len(trans_aug_grouped) = 2

IsAugust2025(cell) == cell.kind = "ts" /\ cell.y = 2025 /\ cell.m = 8

KeptTransRow(r) ==
    /\ r.Source = "pos"
    /\ ~(/\ Len(r.OrderID) >= 3
         /\ r.OrderID[1] = 77 /\ r.OrderID[2] = 69 /\ r.OrderID[3] = 77)
    /\ IsAugust2025(r.TransactionDate)

KeptTaxRow(r) == r.ModuleName = "pos" /\ IsAugust2025(r.Date)

\* C10: the filter stage outputs exactly the rows of the target month whose
\* category predicate holds, in their order: a transaction row is kept iff
\* Source is 'pos', its Order ID does not start with 'MEM' and its
\* Transaction Date is in August 2025; a tax row iff Module Name is 'pos' and
\* its Date is in August 2025.
C10_FilterExactly ==
    AfterFilter =>
        /\ \A i \in 1..Len(WoodTrans) :
              KeptTransRow(WoodTrans[i]) <=> (\E k \in 1..Len(trans_aug) : trans_aug[k].idx = i)
        /\ \A i \in 1..Len(WoodTax) :
              KeptTaxRow(WoodTax[i]) <=> (\E k \in 1..Len(tax_aug) : tax_aug[k].idx = i)
        /\ \A k \in 1..Len(trans_aug) :
              /\ trans_aug[k].OrderID = WoodTrans[trans_aug[k].idx].OrderID
              /\ trans_aug[k].Amount = WoodTrans[trans_aug[k].idx].Amount
              /\ trans_aug[k].TransactionDate = WoodTrans[trans_aug[k].idx].TransactionDate
              /\ k > 1 => trans_aug[k - 1].idx < trans_aug[k].idx
        /\ \A k \in 1..Len(tax_aug) :
              /\ tax_aug[k].OrderID = WoodTax[tax_aug[k].idx].OrderID
              /\ tax_aug[k].TotalSum = WoodTax[tax_aug[k].idx].TotalSum
              /\ tax_aug[k].Date = WoodTax[tax_aug[k].idx].Date
              /\ k > 1 => tax_aug[k - 1].idx < tax_aug[k].idx

C10_Witness ==
    /\ pc = "filtered"
    /\ Len(trans_aug) = 1
    /\ Len(WoodTrans) = 2
    /\ WoodTax # <<>>
    /\ tax_aug = <<>>

\* C11: a row whose date cell cannot be parsed is coerced to a null date and
\* left out of the filtered window, and an unparseable date never raises or
\* aborts the run: no run of main() ends in the ValueError of pd.to_datetime,
\* and after the filter no row with such a cell is in trans_aug or tax_aug.
C11_UnparseableDateCoerced ==
    /\ error # "ValueError"
    /\ AfterFilter =>
          /\ \A i \in 1..Len(WoodTrans) :
                WoodTrans[i].TransactionDate = TextDate =>
                    \A j \in 1..Len(trans_aug) : trans_aug[j].idx # WoodTrans[i].idx
          /\ \A i \in 1..Len(WoodTax) :
                WoodTax[i].Date = TextDate =>
                    \A j \in 1..Len(tax_aug) : tax_aug[j].idx # WoodTax[i].idx

Printed(msg) == \E i \in 1..Len(stdout) : stdout[i] = msg

\* C12: loading is fail-fast.  When reading a file fails or an expected
\* column is absent the run ends in the except clause with the diagnostic
\* printed; a failed read leaves every stage unexecuted; after the failure no
\* stage executes (no local, summary or message changes) and the success
\* message is never printed in that run.
C12_FailFast ==
    /\ [](/\ error # NoError =>
                /\ pc = "failed"
                /\ stdout = <<ErrorDuringAnalysis>>
                /\ ~summary.printed
          /\ error = "FileNotFoundError" =>
                /\ loaded = <<Unbound, Unbound>>
                /\ prepared = <<Unbound, Unbound>>
                /\ filtered = <<Unbound, Unbound>>
                /\ trans_aug_grouped = Unbound
                /\ results = <<Unbound, Unbound, Unbound>>
          /\ ~FullHeaders =>
                /\ ~Printed(AnalysisCompleted)
                /\ pc # "done"
                /\ exit_status # 0)
    /\ [][pc = "failed" =>
            UNCHANGED <<pc, error, stdout, loaded, prepared, filtered,
                        trans_aug_grouped, results, summary>>]_vars

\* A run that executed the filter and failed in the grouping on an absent
\* column, and has ended.
C12_Witness ==
    /\ pc = "failed"
    /\ error = "KeyError"
    /\ Len(trans_aug) = 1
    /\ exit_status = 1

\* ------------------------------------------------------------------------
\* src/PDF_Report_Generator.py: the flowables of the report
\* ------------------------------------------------------------------------

\* reportlab flowables.  text is the literal part of a paragraph and args the
\* values formatted into it; the args of a Table are its rows.
Paragraph(style, text, args) ==
    [flowable |-> "Paragraph", style |-> style, text |-> text, args |-> args]

Spacer == [flowable |-> "Spacer", style |-> "", text |-> "", args |-> <<>>]

PageBreak == [flowable |-> "PageBreak", style |-> "", text |-> "", args |-> <<>>]

Table(data) == [flowable |-> "Table", style |-> "", text |-> "", args |-> data]

\* f'${x:,.2f}': the value under the two-decimal dollar format.
Money(x) == [fmt |-> "$,.2f", value |-> x]

\* strftime('%m/%d')
MonthDay(ts) == <<ts.m, ts.d>>

\* Series.sum() of a float64 column: accumulated in row order from 0.0.
\* SumRange adds the values lo..hi of col to acc one by one; the range is
\* halved, and the sum of the first half computed first, to keep the
\* evaluation shallow.
RECURSIVE SumRange(_, _, _, _)
SumRange(acc, col, lo, hi) ==
    IF lo > hi THEN acc
    ELSE IF lo = hi THEN FAdd(acc, col[lo])
    ELSE LET mid  == (lo + hi) \div 2
             left == SumRange(acc, col, lo, mid)
         IN  IF left.neg \in BOOLEAN THEN SumRange(left, col, mid + 1, hi) ELSE left

SeriesSum(col, n) == SumRange(FZero, col, 1, n)

AmountColumn(df) == [i \in 1..Len(df) |-> df[i].Amount]

TotalSumColumn(df) == [i \in 1..Len(df) |-> df[i].TotalSum]

AmountDiffColumn(df) == [i \in 1..Len(df) |-> df[i].Amount_Diff]

\* Order of two timestamps.
DateLess(a, b) ==
    \/ a.y < b.y
    \/ a.y = b.y /\ a.m < b.m
    \/ a.y = b.y /\ a.m = b.m /\ a.d < b.d

\* sort_values(column): the orders of the rows that ascend in the key.  The
\* default sort is not stable, so rows with equal keys may come in any order.
\* keyed is the set of [key, row, index] of the frame.
RECURSIVE SortedOrders(_)
SortedOrders(keyed) ==
    IF keyed = {} THEN {<<>>}
    ELSE LET least == {p \in keyed : \A q \in keyed : ~DateLess(q.key, p.key)}
         IN  UNION {{<<p.row>> \o rest : rest \in SortedOrders(keyed \ {p})} :
                        p \in least}

\* create_title_page (lines 83-130); report_date is the day of the clock.
TitlePage(report_date) ==
    <<Paragraph("CustomTitle", "WOODLAND PLAY CAFE", <<>>),
      Paragraph("CustomTitle", "Data Analysis Report", <<>>),
      Spacer,
      Paragraph("CustomSubtitle", "Transaction vs Tax Report Analysis", <<>>),
      Paragraph("CustomSubtitle", "August 2025", <<>>),
      Spacer,
      Paragraph("CustomDetails", "Report Generated: {report_date}", <<report_date>>),
      Paragraph("CustomDetails", "Analysis Period: August 2025", <<>>),
      Paragraph("CustomDetails",
                "Purpose: Identify missing records and amount mismatches", <<>>),
      PageBreak>>

\* create_summary_section (lines 230-286): the Metric / Value table.
SummaryData(G, T, missing, merged, significant) ==
    LET trans_total == SeriesSum(AmountColumn(G), Len(G))
        tax_total   == SeriesSum(TotalSumColumn(T), Len(T))
        difference  == FSub(trans_total, tax_total)
    IN  <<<<"Metric", "Value">>,
          <<"Transaction Report Total", Money(trans_total)>>,
          <<"Tax Report Total", Money(tax_total)>>,
          <<"Total Difference", Money(difference)>>,
          <<"", "">>,
          <<"Missing Records", Len(missing)>>,
          <<"Missing Amount", Money(SeriesSum(AmountColumn(missing), Len(missing)))>>,
          <<"Amount Differences", Len(significant)>>,
          <<"Difference Amount",
            Money(SeriesSum(AmountDiffColumn(merged), Len(merged)))>>,
          <<"", "">>,
          <<"Total Orders (Transaction)", Len(G)>>,
          <<"Total Orders (Tax)", Len(T)>>,
          <<"Matching Orders", Len(merged)>> >>

SummarySection(G, T, missing, merged, significant) ==
    <<Paragraph("SectionHeader", "EXECUTIVE SUMMARY", <<>>),
      Spacer,
      Table(SummaryData(G, T, missing, merged, significant)),
      PageBreak>>

\* records_per_page of both listings (lines 548, 618).
records_per_page == 30

Min(a, b) == IF a < b THEN a ELSE b

\* A slice that starts one row early: each page after the first repeats the
\* last record of the page before it.
RECURSIVE ListingPages_OffByOne(_, _, _, _)
ListingPages_OffByOne(table_data, total_records, page_start, continued) ==
    IF page_start >= total_records THEN <<>>
    ELSE LET page_end  == Min(page_start + records_per_page, total_records)
             first     == IF page_start > 0 THEN page_start + 1 ELSE 2
             page_data == <<table_data[1]>> \o SubSeq(table_data, first, page_end + 1)
             heading   == IF page_start > 0
                          THEN <<Paragraph("Heading2", continued,
                                           <<page_start + 1, page_end>>),
                                 Spacer>>
                          ELSE <<>>
             break     == IF page_end < total_records THEN <<PageBreak>> ELSE <<>>
         IN  heading \o <<Table(page_data)>> \o break
             \o ListingPages_OffByOne(table_data, total_records,
                                      page_start + records_per_page, continued)

\* The loop 'for page_start in range(0, total_records, records_per_page)'
\* (lines 551-576, 621-646) from page_start on: per page a heading on the
\* continuation pages, the table of the header row and the page's rows, and
\* a page break when more follows.  table_data[1] is the header row.
RECURSIVE ListingPages(_, _, _, _)
ListingPages(table_data, total_records, page_start, continued) ==
    IF page_start >= total_records THEN <<>>
    ELSE LET page_end  == Min(page_start + records_per_page, total_records)
             page_data == <<table_data[1]>>
                          \o SubSeq(table_data, page_start + 2, page_end + 1)
             heading   == IF page_start > 0
                          THEN <<Paragraph("Heading2", continued,
                                           <<page_start + 1, page_end>>),
                                 Spacer>>
                          ELSE <<>>
             break     == IF page_end < total_records THEN <<PageBreak>> ELSE <<>>
         IN  heading \o <<Table(page_data)>> \o break
             \o ListingPages(table_data, total_records,
                             page_start + records_per_page, continued)

TransHeaderRow ==
    <<"#", "Order ID", "Date", "Amount", "Location", "Payment Type", "Gateway">>

\* table_data of create_all_transactions_section (lines 535-545).
TransTableData(trans_data) ==
    <<TransHeaderRow>>
    \o [i \in 1..Len(trans_data) |->
          <<i, trans_data[i].OrderID, MonthDay(trans_data[i].TransactionDate),
            Money(trans_data[i].Amount), trans_data[i].Location,
            trans_data[i].PaymentType, trans_data[i].PaymentGateway>>]

\* create_all_transactions_section (lines 512-579) on the sorted frame.
AllTransactionsSection(trans_data) ==
    <<Paragraph("SectionHeader", "ALL TRANSACTION RECORDS (August 2025)", <<>>),
      Spacer,
      Paragraph("Normal", "Total Transaction Records: {n} orders worth {total}",
                <<Len(trans_data),
                  Money(SeriesSum(AmountColumn(trans_data), Len(trans_data)))>>),
      Spacer>>
    \o ListingPages(TransTableData(trans_data), Len(trans_data), 0,
                    "ALL TRANSACTION RECORDS (Continued - Records {a} to {b})")
    \o <<PageBreak>>

TaxHeaderRow ==
    <<"#", "Order ID", "Date", "Total Sum", "Tip", "Tax", "Order Status",
      "Payment Status">>

\* table_data of create_all_tax_records_section (lines 604-615); the sheets
\* modelled have no 'Order Status' or 'Payment Status' column, so row.get
\* gives its default.
TaxTableData(tax_data) ==
    <<TaxHeaderRow>>
    \o [i \in 1..Len(tax_data) |->
          <<i, tax_data[i].OrderID, MonthDay(tax_data[i].Date),
            Money(tax_data[i].TotalSum), Money(tax_data[i].Tip),
            Money(tax_data[i].Tax), "N/A", "N/A">>]

\* create_all_tax_records_section (lines 581-649) on the sorted frame.
AllTaxRecordsSection(tax_data) ==
    <<Paragraph("SectionHeader", "ALL TAX RECORDS (August 2025)", <<>>),
      Spacer,
      Paragraph("Normal", "Total Tax Records: {n} orders worth {total}",
                <<Len(tax_data),
                  Money(SeriesSum(TotalSumColumn(tax_data), Len(tax_data)))>>),
      Spacer>>
    \o ListingPages(TaxTableData(tax_data), Len(tax_data), 0,
                    "ALL TAX RECORDS (Continued - Records {a} to {b})")
    \o <<PageBreak>>

\* One entry of the recommendations list: its leading emoji, by name, its
\* text and the values formatted into it.
Rec(emoji, text, args) == [emoji |-> emoji, text |-> text, args |-> args]

\* A list that calls the data consistent as soon as one of the two findings
\* is empty.
Recommendations_ConsistentIfEither(missing_count, diff_count) ==
    (IF missing_count > 0
     THEN <<Rec("magnifier", "Investigate {n} missing Order IDs in Tax Report system",
                <<missing_count>>)>>
     ELSE <<>>)
    \o (IF diff_count > 0
        THEN <<Rec("money", "Review {n} orders with amount discrepancies", <<diff_count>>)>>
        ELSE <<>>)
    \o (IF missing_count = 0 \/ diff_count = 0
        THEN <<Rec("check", "All data is consistent - no action required!", <<>>)>>
        ELSE <<>>)

\* The list built by create_recommendations_section (lines 666-697).
Recommendations(missing_count, diff_count) ==
    (IF missing_count > 0
     THEN <<Rec("magnifier", "Investigate {n} missing Order IDs in Tax Report system",
                <<missing_count>>),
            Rec("card", "Check if cash transactions are properly recorded in tax system", <<>>),
            Rec("gear", "Verify tax calculation process for missing orders", <<>>),
            Rec("telephone", "Contact tax system administrator to resolve missing records", <<>>)>>
     ELSE <<>>)
    \o (IF diff_count > 0
        THEN <<Rec("money", "Review {n} orders with amount discrepancies", <<diff_count>>),
               Rec("abacus", "Verify tip and tax calculations in Tax Report", <<>>),
               Rec("bars", "Cross-check amount calculations with source systems", <<>>),
               Rec("cycle", "Update tax calculation formulas if needed", <<>>)>>
        ELSE <<>>)
    \o (IF missing_count = 0 /\ diff_count = 0
        THEN <<Rec("check", "All data is consistent - no action required!", <<>>)>>
        ELSE <<>>)
    \o <<Rec("", "", <<>>),
         Rec("chart", "MONITORING RECOMMENDATIONS:", <<>>),
         Rec("bullet", "Run this analysis monthly to catch discrepancies early", <<>>),
         Rec("bullet", "Set up automated alerts for missing records", <<>>),
         Rec("bullet", "Implement data validation checks in both systems", <<>>),
         Rec("bullet", "Create reconciliation procedures for future reporting", <<>>)>>

\* The loop of lines 699-705 on one entry.
RecFlowable(rec) ==
    IF rec.emoji = "chart" THEN Paragraph("Heading2", rec.text, rec.args)
    ELSE IF rec.emoji = "" /\ rec.text = "" THEN Spacer
    ELSE Paragraph("Normal", rec.text, rec.args)

\* A section that is left out when there is nothing to recommend.
RecommendationsSection_OnlyIfFindings(missing, significant) ==
    IF Len(missing) = 0 /\ Len(significant) = 0 THEN <<>>
    ELSE <<Paragraph("SectionHeader", "RECOMMENDATIONS & NEXT STEPS", <<>>), Spacer>>

\* create_recommendations_section (lines 651-707).
RecommendationsSection(missing, significant) ==
    LET recommendations == Recommendations(Len(missing), Len(significant))
    IN  <<Paragraph("SectionHeader", "RECOMMENDATIONS & NEXT STEPS", <<>>), Spacer>>
        \o [i \in 1..Len(recommendations) |-> RecFlowable(recommendations[i])]

\* ------------------------------------------------------------------------
\* src/PDF_Report_Generator.py: generate_pdf_report() and the __main__ block
\* ------------------------------------------------------------------------

\* Readings of the wall clock, in seconds; datetime.now() gives the local
\* time, which nothing orders between two readings.
MaxClock == 1

ClockReadings == 0..MaxClock

SecondsPerDay == 86400

\* strftime('%B %d, %Y'): the day of a reading.
DateOf(t) == t \div SecondsPerDay

\* f"Woodland_Analysis_Report_{datetime.now().strftime('%Y%m%d_%H%M%S')}.pdf"
ReportName(t) == FileName("Woodland_Analysis_Report_", t)

\* The exception load_and_analyze_data (lines 20-81) raises on the sheets
\* read, in the order of its statements, or NoError.
AnalysisError(WT, WX) ==
    IF ~(TransPrepareColumns \subseteq TransColumns) THEN "KeyError"
    ELSE IF TransDatesRaise(TransPosModule(WT)) THEN "ValueError"
    ELSE IF ~(TaxPrepareColumns \subseteq TaxColumns) THEN "KeyError"
    ELSE IF TaxDatesRaise(SelectSeq(WX, IsPosModuleName)) THEN "ValueError"
    ELSE IF ~(GroupColumns \subseteq TransColumns) THEN "KeyError"
    ELSE IF ~(MergeTaxColumns \subseteq TaxColumns) THEN "KeyError"
    ELSE NoError

\* trans_aug and tax_aug of load_and_analyze_data (lines 29-48).
AnalysisTransAug(WT) ==
    LET df == TransPosModule(WT)
    IN  FilterAugust([i \in 1..Len(df) |-> WithTransMonth(df[i])])

AnalysisTaxAug(WX) ==
    LET df == SelectSeq(WX, IsPosModuleName)
    IN  FilterAugust([i \in 1..Len(df) |-> WithTaxMonth(df[i])])

\* The dictionary returned (lines 75-81) is held in the variables of its keys.
load_and_analyze_data ==
    /\ pc = "generate_pdf_report"
    /\ AnalysisError(IndexTrans(TransReportFile), IndexTax(TaxReportFile)) = NoError
    /\ LET G == GroupByOrderID(AnalysisTransAug(IndexTrans(TransReportFile)))
           T == AnalysisTaxAug(IndexTax(TaxReportFile))
       IN  /\ trans_aug_grouped' = G
           /\ tax_aug' = T
           /\ missing_in_tax' = MissingInTax(G, T)
           /\ merged_comparison' = MergedComparison(G, T)
           /\ significant_mismatches' = SignificantMismatches(MergedComparison(G, T))
    /\ pc' = "analyzed"
    /\ UNCHANGED <<files, elsewhere, process, loaded, prepared, trans_aug, summary, second>>

\* read_excel raises, or a statement of load_and_analyze_data does.
load_and_analyze_data_raises ==
    /\ pc = "generate_pdf_report"
    /\ \/ error' = "FileNotFoundError"
       \/ /\ AnalysisError(IndexTrans(TransReportFile), IndexTax(TaxReportFile)) # NoError
          /\ error' = AnalysisError(IndexTrans(TransReportFile), IndexTax(TaxReportFile))
    /\ pc' = "raised"
    /\ UNCHANGED <<files, elsewhere, stdout, exit_status, loaded, prepared, filtered,
                   trans_aug_grouped, results, summary, second>>

\* Lines 717-724: the file name from the clock, the document, the empty story.
create_document ==
    /\ pc = "analyzed"
    /\ \E t \in ClockReadings : filename' = ReportName(t)
    /\ story' = <<>>
    /\ pc' = "document"
    /\ UNCHANGED <<files, standalone, disk, run, process, loaded, prepared, filtered,
                   trans_aug_grouped, results, summary, second>>

create_title_page ==
    /\ pc = "document"
    /\ \E t \in ClockReadings : story' = story \o TitlePage(DateOf(t))
    /\ pc' = "title"
    /\ UNCHANGED <<files, standalone, filename, disk, run, process, loaded, prepared, filtered,
                   trans_aug_grouped, results, summary, second>>

create_summary_section ==
    /\ pc = "title"
    /\ story' = story \o SummarySection(trans_aug_grouped, tax_aug, missing_in_tax,
                                        merged_comparison, significant_mismatches)
    /\ pc' = "summary"
    /\ UNCHANGED <<files, standalone, filename, disk, run, process, loaded, prepared, filtered,
                   trans_aug_grouped, results, summary, second>>

create_all_transactions_section ==
    /\ pc = "summary"
    /\ \E trans_data \in SortedOrders({[key |-> trans_aug_grouped[i].TransactionDate,
                                        row |-> trans_aug_grouped[i], index |-> i] :
                                           i \in 1..Len(trans_aug_grouped)}) :
          story' = story \o AllTransactionsSection(trans_data)
    /\ pc' = "transactions"
    /\ UNCHANGED <<files, standalone, filename, disk, run, process, loaded, prepared, filtered,
                   trans_aug_grouped, results, summary, second>>

create_all_tax_records_section ==
    /\ pc = "transactions"
    /\ \E tax_data \in SortedOrders({[key |-> tax_aug[i].Date, row |-> tax_aug[i], index |-> i] :
                                        i \in 1..Len(tax_aug)}) :
          story' = story \o AllTaxRecordsSection(tax_data)
    /\ pc' = "tax_records"
    /\ UNCHANGED <<files, standalone, filename, disk, run, process, loaded, prepared, filtered,
                   trans_aug_grouped, results, summary, second>>

create_recommendations_section ==
    /\ pc = "tax_records"
    /\ story' = story \o RecommendationsSection(missing_in_tax, significant_mismatches)
    /\ pc' = "recommendations"
    /\ UNCHANGED <<files, standalone, filename, disk, run, process, loaded, prepared, filtered,
                   trans_aug_grouped, results, summary, second>>

\* doc.build(story) (line 742) writes the file, replacing one of that name.
doc_build ==
    /\ pc = "recommendations"
    /\ disk' = {f \in disk : f.name # filename}
               \cup {[name |-> filename, content |-> story, run |-> run]}
    /\ pc' = "built"
    /\ UNCHANGED <<files, standalone, story, filename, run, process, loaded, prepared, filtered,
                   trans_aug_grouped, results, summary, second>>

\* The file cannot be written.
doc_build_raises ==
    /\ pc = "recommendations"
    /\ error' = "PermissionError"
    /\ pc' = "raised"
    /\ UNCHANGED <<files, elsewhere, stdout, exit_status, loaded, prepared, filtered,
                   trans_aug_grouped, results, summary, second>>

ReportGenerated == "PDF report generated"

ReportCompleted == "Report generation completed successfully!"

ErrorGeneratingReport == "Error generating report"

\* Lines 744-747 and 752-753: the messages of a run that returned.
report_completed ==
    /\ pc = "built"
    /\ stdout' = stdout \o <<ReportGenerated, ReportCompleted>>
    /\ pc' = "pdf_done"
    /\ UNCHANGED <<files, elsewhere, error, exit_status, loaded, prepared, filtered,
                   trans_aug_grouped, results, summary, second>>

\* Lines 754-757: the except clause of the __main__ block prints the error
\* and the traceback, and does not raise.
report_failed ==
    /\ pc = "raised"
    /\ stdout' = Append(stdout, ErrorGeneratingReport)
    /\ pc' = "pdf_failed"
    /\ UNCHANGED <<files, elsewhere, error, exit_status, loaded, prepared, filtered,
                   trans_aug_grouped, results, summary, second>>

\* The end of the __main__ block is the end of the module: status 0.
generator_ends ==
    /\ pc \in {"pdf_done", "pdf_failed"}
    /\ exit_status = Running
    /\ exit_status' = 0
    /\ UNCHANGED <<files, elsewhere, pc, error, stdout, loaded, prepared, filtered,
                   trans_aug_grouped, results, summary, second>>

NextPdf ==
    \/ load_and_analyze_data
    \/ load_and_analyze_data_raises
    \/ create_document
    \/ create_title_page
    \/ create_summary_section
    \/ create_all_transactions_section
    \/ create_all_tax_records_section
    \/ create_recommendations_section
    \/ doc_build
    \/ doc_build_raises
    \/ report_completed
    \/ report_failed
    \/ generator_ends

\* Input files of the report generator: a few rows that differ in order,
\* amount and day, and long listings.
MaxPdfRows == 2

\* Rows of the longest listing.
MaxListing == 32

Aug03 == Timestamp(2025, 8, 3)

PdfTransCells ==
    {TransCell(Id_A1, 100, Aug2025, "Main", "pos"),
     TransCell(Id_A1, 101, Aug2025, "Main", "pos"),
     TransCell(Id_B2, 100, Aug03, "Main", "pos")}

PdfTaxCells ==
    {TaxCell(Id_A1, 100, Aug2025, "pos"),
     TaxCell(Id_B2, 100, Aug03, "pos"),
     TaxCell(Id_C9, 100, Aug03, "pos")}

\* The k-th order of a long listing: a two-digit Order ID and a day of
\* August 2025 that does not follow the file order.
ListingId(k) == <<48 + (k \div 10), 48 + (k % 10)>>

ListingDay(k) == 1 + ((7 * k) % 31)

ListingTransFile(n) ==
    [k \in 1..n |->
        TransCell(ListingId(k), 100, Timestamp(2025, 8, ListingDay(k)), "Main", "pos")]

ListingTaxFile(n) ==
    [k \in 1..n |->
        TaxCell(ListingId(k), 100, Timestamp(2025, 8, ListingDay(k)), "pos")]

PdfFiles ==
    \/ /\ TransReportFile \in Tables(PdfTransCells, MaxPdfRows)
       /\ TaxReportFile \in Tables(PdfTaxCells, MaxPdfRows)
       /\ FullHeaders
    \/ /\ \E n \in 0..MaxListing : TransReportFile = ListingTransFile(n)
       /\ \E n \in 0..MaxListing : TaxReportFile = ListingTaxFile(n)
       /\ Len(TaxReportFile) \in {0, Len(TransReportFile)}
       /\ FullHeaders
    \/ AbsentColumnFiles

\* Entry of generate_pdf_report() from the __main__ block.
InitPdf ==
    /\ PdfFiles
    /\ pc = "generate_pdf_report"
    /\ LocalsUnbound

SpecPdf == InitPdf /\ [][NextPdf]_vars

\* C13: exit behaviour of a script run as a program: a run that raised no
\* exception has printed its confirmation message when the process ends, and
\* a run in which an exception was raised ends with a non-zero exit status.
C13_ExitBehaviour ==
    exit_status # Running =>
        /\ error = NoError => Printed(ReportCompleted) \/ Printed(AnalysisCompleted)
        /\ error # NoError => exit_status # 0

(***************************************************************************)
(* src/PDF Generators/Booking_PDF_Generator.py                             *)
(***************************************************************************)

\* Rows of the largest booking DataFrame.
MaxBookingRows == 3

BookingCell(total, type) == [total |-> total, booking_flow_type |-> type]

BookingCells ==
    {BookingCell(100, "party"), BookingCell(250, "party"),
     BookingCell(100, "walkin"), BookingCell(250, "walkin")}

\* A DataFrame passed as trans_filtered: its columns and its rows.
BookingFrame(columns, rows) == [columns |-> columns, rows |-> rows]

BookingFrames ==
    {BookingFrame(columns, rows) :
        columns \in {{"total", "booking_flow_type"}, {"total"}, {}},
        rows \in Tables(BookingCells, MaxBookingRows)}

\* A filename passed by the caller.
CustomName == FileName("Bookings.pdf", NoStamp)

\* The call generate_booking_report_pdf(trans_filtered, filename).
InitBooking ==
    /\ NoSheets
    /\ MainLocalsUnbound
    /\ ProcessStarts
    /\ NothingWritten
    /\ pc = "generate_booking_report_pdf"
    /\ trans_filtered \in BookingFrames
    /\ filename \in {None, CustomName}
    /\ TalliesUnbound
    /\ MembershipFile = Unbound
    /\ all_membership_data = Unbound
    /\ august_2025 = Unbound
    /\ consulted = {}

\* if filename is None: datetime.datetime.now(): the module imports the
\* class datetime, which has no attribute datetime.
booking_default_filename_raises ==
    /\ pc = "generate_booking_report_pdf"
    /\ filename = None
    /\ error' = "AttributeError"
    /\ pc' = "booking_raised"
    /\ UNCHANGED <<files, loaded, prepared, filtered, trans_aug_grouped, results,
                   summary, second, stdout, exit_status, report, standalone>>

\* A supplied filename: the document, the styles and the title paragraph.
booking_create_document ==
    /\ pc = "generate_booking_report_pdf"
    /\ filename # None
    /\ story' = <<Paragraph("CustomTitle", "Woodland Play Cafe - Booking Analysis Report", <<>>)>>
    /\ pc' = "booking_report_metadata"
    /\ UNCHANGED <<files, loaded, prepared, filtered, trans_aug_grouped, results,
                   summary, second, process, filename, disk, run, standalone>>

\* report_date = datetime.datetime.now(): the same attribute error; no
\* statement after it is reached.
booking_report_date_raises ==
    /\ pc = "booking_report_metadata"
    /\ error' = "AttributeError"
    /\ pc' = "booking_raised"
    /\ UNCHANGED <<files, loaded, prepared, filtered, trans_aug_grouped, results,
                   summary, second, stdout, exit_status, report, standalone>>

NextBooking ==
    \/ booking_default_filename_raises
    \/ booking_create_document
    \/ booking_report_date_raises

SpecBooking == InitBooking /\ [][NextBooking]_vars

\* C14: generate_booking_report_pdf(trans_filtered, filename) reaches its
\* return statement for any DataFrame: the call never ends in an exception
\* (and returns the supplied or the timestamped name).
C14_ReachesReturn == pc # "booking_raised"

(***************************************************************************)
(* Running PDF_Report_Generator.py again on the same input files.          *)
(***************************************************************************)

\* Runs of the script over the same directory.
MaxRuns == 2

\* Rows of a sheet of the repeated runs.
MaxRerunRows == 1

\* The next run of the program: a new process, whose locals are unbound; the
\* sheets and the files already written stay as they are.
run_again ==
    /\ exit_status # Running
    /\ run < MaxRuns
    /\ run' = run + 1
    /\ pc' = "generate_pdf_report"
    /\ WoodTrans' = Unbound
    /\ WoodTax' = Unbound
    /\ trans_pos_module_df' = Unbound
    /\ tax_pos_df' = Unbound
    /\ trans_aug' = Unbound
    /\ tax_aug' = Unbound
    /\ trans_aug_grouped' = Unbound
    /\ missing_in_tax' = Unbound
    /\ merged_comparison' = Unbound
    /\ significant_mismatches' = Unbound
    /\ error' = NoError
    /\ stdout' = <<>>
    /\ exit_status' = Running
    /\ story' = <<>>
    /\ filename' = None
    /\ UNCHANGED <<files, disk, summary, second, standalone>>

InitRerun ==
    /\ TransReportFile \in Tables(PdfTransCells, MaxRerunRows)
    /\ TaxReportFile \in Tables(PdfTaxCells, MaxRerunRows)
    /\ FullHeaders
    /\ pc = "generate_pdf_report"
    /\ LocalsUnbound

NextRerun ==
    \/ NextPdf
    \/ run_again

SpecRerun == InitRerun /\ [][NextRerun]_vars

\* The analysis results of a run are those computed from the two sheets.
ResultsFromInputs ==
    pc \in {"analyzed", "document", "built", "pdf_done"} =>
        LET G == GroupByOrderID(AnalysisTransAug(IndexTrans(TransReportFile)))
            T == AnalysisTaxAug(IndexTax(TaxReportFile))
        IN  /\ trans_aug_grouped = G
            /\ tax_aug = T
            /\ missing_in_tax = MissingInTax(G, T)
            /\ significant_mismatches = SignificantMismatches(MergedComparison(G, T))

\* C15: a script whose output name holds a timestamp never overwrites the
\* file of an earlier run (every file on disk stays there, as written, in
\* every step), and the results of a run depend on the input files only.
C15_NeverOverwrites ==
    /\ []ResultsFromInputs
    /\ [][\A f \in disk : f \in disk']_vars

(***************************************************************************)
(* The sections of a generated report.                                     *)
(***************************************************************************)

IsSectionHeader(f) == f.flowable = "Paragraph" /\ f.style = "SectionHeader"

\* The texts of the section headers of a story, in order.
SectionHeaders(s) ==
    LET headers == SelectSeq(s, IsSectionHeader)
    IN  [i \in 1..Len(headers) |-> headers[i].text]

\* Position of the header of a section in a story that has it.
HeaderAt(s, text) == CHOOSE i \in 1..Len(s) : IsSectionHeader(s[i]) /\ s[i].text = text

\* Positions of the tables of a story whose header row is the given one.
TablesOf(s, header_row) ==
    {i \in 1..Len(s) : s[i].flowable = "Table" /\ s[i].args[1] = header_row}

FixedSections ==
    <<"EXECUTIVE SUMMARY", "ALL TRANSACTION RECORDS (August 2025)",
      "ALL TAX RECORDS (August 2025)", "RECOMMENDATIONS & NEXT STEPS">>

\* C16: every PDF written by generate_pdf_report begins with the title page
\* and has the sections executive summary (the Metric / Value tally table),
\* all transaction records, all tax records and recommendations, each once
\* and in this order, whatever the data; the tally table stands in the
\* summary, the listing tables stand in their sections, and the last
\* section is the recommendations.
C16_FixedSections ==
    \A f \in disk :
        LET s == f.content
        IN  /\ Len(s) > 0
            /\ s[1] = Paragraph("CustomTitle", "WOODLAND PLAY CAFE", <<>>)
            /\ ~IsSectionHeader(s[2])
            /\ SectionHeaders(s) = FixedSections
            /\ \E i \in TablesOf(s, <<"Metric", "Value">>) :
                  /\ TablesOf(s, <<"Metric", "Value">>) = {i}
                  /\ HeaderAt(s, FixedSections[1]) < i
                  /\ i < HeaderAt(s, FixedSections[2])
            /\ \A i \in TablesOf(s, TransHeaderRow) :
                  /\ HeaderAt(s, FixedSections[2]) < i
                  /\ i < HeaderAt(s, FixedSections[3])
            /\ \A i \in TablesOf(s, TaxHeaderRow) :
                  /\ HeaderAt(s, FixedSections[3]) < i
                  /\ i < HeaderAt(s, FixedSections[4])
            /\ \A i \in HeaderAt(s, FixedSections[4]) + 1..Len(s) :
                  s[i].flowable \in {"Paragraph", "Spacer"}
            /\ HeaderAt(s, FixedSections[4]) < Len(s)

\* A report written for data with a missing record and an amount mismatch,
\* and whose listings hold tables.
C16_Witness ==
    /\ pc = "built"
    /\ disk # {}
    /\ Len(missing_in_tax) > 0
    /\ Len(significant_mismatches) > 0
    /\ \E f \in disk : TablesOf(f.content, TransHeaderRow) # {}

\* C17: every non-summed field of a grouped order (Transaction Date,
\* Location, Payment Type, Payment Gateway) is the value of the first row of
\* that Order ID in row order, the four taken from that same row, also when
\* the field of that row is empty.
C17_FieldsOfFirstRow ==
    AfterGrouping =>
        \A i \in 1..Len(trans_aug_grouped) :
            LET g     == trans_aug_grouped[i]
                first == RowsOfOrder(g.OrderID)[1]
            IN  /\ g.TransactionDate = first.TransactionDate
                /\ g.Location = first.Location
                /\ g.PaymentType = first.PaymentType
                /\ g.PaymentGateway = first.PaymentGateway

(***************************************************************************)
(* src/Archive/membership.py                                               *)
(***************************************************************************)

\* Rows of the largest membership sheet.
MaxMembershipRows == 2

MembershipColumnNames ==
    {"membershipid", "updatedat", "purchasedon", "total", "tax", "membershiptypename"}

MembershipCell(id, updatedat, purchasedon, type) ==
    [membershipid |-> id, updatedat |-> updatedat, purchasedon |-> purchasedon,
     total |-> FromCents(1000), tax |-> FromCents(88), membershiptypename |-> type]

MembershipCells ==
    {MembershipCell(Id_MEM1, u, p, "Monthly") :
        u \in {Aug2025, Jul2025, TextDate}, p \in {Aug2025, Jul2025, EmptyDate}}
    \cup {MembershipCell(Id_ME1, Aug2025, Aug2025, "Annual")}

\* The sheet: every expected column, or all but one of those the script
\* reads by name.
MembershipSheets ==
    {[columns |-> columns, rows |-> rows] :
        columns \in {MembershipColumnNames} \cup
                    {MembershipColumnNames \ {c} :
                        c \in {"updatedat", "purchasedon", "membershiptypename"}},
        rows \in Tables(MembershipCells, MaxMembershipRows)}

\* pd.read_excel: the rows under their index.
IndexMembership(cells) ==
    [i \in 1..Len(cells) |->
        [idx |-> i, membershipid |-> cells[i].membershipid,
         updatedat |-> cells[i].updatedat, purchasedon |-> cells[i].purchasedon,
         total |-> cells[i].total, tax |-> cells[i].tax,
         membershiptypename |-> cells[i].membershiptypename]]

\* Start of the script.
InitMembership ==
    /\ NoSheets
    /\ MainLocalsUnbound
    /\ ProcessStarts
    /\ NothingWritten
    /\ pc = "membership"
    /\ filename = FileName("Woodland_Play_Cafe_August_Membership_Tax.pdf", NoStamp)
    /\ trans_filtered = Unbound
    /\ TalliesUnbound
    /\ MembershipFile \in MembershipSheets
    /\ all_membership_data = Unbound
    /\ august_2025 = Unbound
    /\ consulted = {}

\* An exception at module level is not caught: the traceback is printed and
\* the process ends with status 1.
membership_raises(e) ==
    /\ error' = e
    /\ exit_status' = 1
    /\ pc' = "membership_failed"
    /\ UNCHANGED <<files, loaded, prepared, filtered, trans_aug_grouped, results,
                   summary, second, stdout, report, other_scripts, MembershipFile>>

\* Lines 14-17.
membership_read_excel ==
    /\ pc = "membership"
    /\ all_membership_data' = IndexMembership(MembershipFile.rows)
    /\ stdout' = Append(stdout, "Membership data loaded")
    /\ pc' = "membership_loaded"
    /\ UNCHANGED <<files, loaded, prepared, filtered, trans_aug_grouped, results,
                   summary, second, error, exit_status, report, other_scripts,
                   MembershipFile, august_2025, consulted>>

\* pd.to_datetime(..., errors='coerce') on one date column of the frame.
CoerceUpdatedat(df) ==
    [i \in 1..Len(df) |-> [df[i] EXCEPT !.updatedat = ToDatetime(@)]]

CoercePurchasedon(df) ==
    [i \in 1..Len(df) |-> [df[i] EXCEPT !.purchasedon = ToDatetime(@)]]

\* (col.dt.year == 2025) & (col.dt.month == 8) on a converted cell.
InAugust2025(ts) == ts.kind = "ts" /\ ts.y = 2025 /\ ts.m = 8

\* Lines 23-31: the filter on updatedat.
membership_filter_updatedat ==
    /\ pc = "membership_loaded"
    /\ "updatedat" \in MembershipFile.columns
    /\ all_membership_data' = CoerceUpdatedat(all_membership_data)
    /\ august_2025' = SelectSeq(CoerceUpdatedat(all_membership_data),
                                LAMBDA r : InAugust2025(r.updatedat))
    /\ consulted' = consulted \cup {"updatedat"}
    /\ pc' = "membership_filtered"
    /\ UNCHANGED <<files, loaded, prepared, filtered, trans_aug_grouped, results,
                   summary, second, process, report, other_scripts, MembershipFile>>

membership_filter_updatedat_raises ==
    /\ pc = "membership_loaded"
    /\ "updatedat" \notin MembershipFile.columns
    /\ membership_raises("KeyError")
    /\ UNCHANGED <<all_membership_data, august_2025, consulted>>

\* A fallback that does not look at the number of rows found.
membership_fallback_Unconditional ==
    /\ pc = "membership_filtered"
    /\ "purchasedon" \in MembershipFile.columns
    /\ all_membership_data' = CoercePurchasedon(all_membership_data)
    /\ august_2025' = SelectSeq(CoercePurchasedon(all_membership_data),
                                LAMBDA r : InAugust2025(r.purchasedon))
    /\ consulted' = consulted \cup {"purchasedon"}
    /\ pc' = "membership_selected"
    /\ UNCHANGED <<files, loaded, prepared, filtered, trans_aug_grouped, results,
                   summary, second, process, report, other_scripts, MembershipFile>>

\* Lines 34-41: if len(august_2025) == 0, the filter on purchasedon.
membership_fallback ==
    /\ pc = "membership_filtered"
    /\ IF Len(august_2025) = 0
       THEN /\ "purchasedon" \in MembershipFile.columns
            /\ all_membership_data' = CoercePurchasedon(all_membership_data)
            /\ august_2025' = SelectSeq(CoercePurchasedon(all_membership_data),
                                        LAMBDA r : InAugust2025(r.purchasedon))
            /\ consulted' = consulted \cup {"purchasedon"}
       ELSE UNCHANGED <<all_membership_data, august_2025, consulted>>
    /\ pc' = "membership_selected"
    /\ UNCHANGED <<files, loaded, prepared, filtered, trans_aug_grouped, results,
                   summary, second, process, report, other_scripts, MembershipFile>>

membership_fallback_raises ==
    /\ pc = "membership_filtered"
    /\ Len(august_2025) = 0
    /\ "purchasedon" \notin MembershipFile.columns
    /\ membership_raises("KeyError")
    /\ UNCHANGED <<all_membership_data, august_2025, consulted>>

\* The membership types of a frame, in the order groupby gives them.
MembershipTypes(df) ==
    SelectSeq(<<"Annual", "Monthly">>,
              LAMBDA t : \E i \in 1..Len(df) : df[i].membershiptypename = t)

SummaryHeaderRow ==
    <<"Year", "Month", "Membership Type", "Total_Amount", "Total_Tax", "Effective_Tax_%">>

\* summary_data (lines 56-96).  Of a row of the summary the first three cells
\* are kept; the amounts of a type row and of the grand total are the sums of
\* the frame's 'total' and 'tax', which are not computed here.
MembershipSummaryData(df) ==
    IF Len(df) > 0
    THEN <<SummaryHeaderRow>>
         \o [i \in 1..Len(MembershipTypes(df)) |-> <<"2025", "8", MembershipTypes(df)[i]>>]
         \o <<<<"All", "All", "Grand Total">>>>
    ELSE <<SummaryHeaderRow, <<"2025", "8", "No Data", "0.00", "0.00", "0.00">>>>

\* Lines 43-110: the title and the summary table.
membership_summary ==
    /\ pc = "membership_selected"
    /\ Len(august_2025) > 0 => "membershiptypename" \in MembershipFile.columns
    /\ story' = <<Paragraph("Title", "Woodland Play Cafe - August 2025 Membership Tax Report (Filtered by Transaction Date)", <<>>),
                  Spacer,
                  Paragraph("Heading2", "MEMBERSHIP SUMMARY (Year, Month, Amount + Tax)", <<>>),
                  Table(MembershipSummaryData(august_2025)),
                  Spacer>>
    /\ pc' = "membership_summarized"
    /\ UNCHANGED <<files, loaded, prepared, filtered, trans_aug_grouped, results,
                   summary, second, process, filename, disk, run, standalone>>

\* groupby('membershiptypename') on a frame without the column.
membership_summary_raises ==
    /\ pc = "membership_selected"
    /\ Len(august_2025) > 0
    /\ "membershiptypename" \notin MembershipFile.columns
    /\ membership_raises("KeyError")
    /\ UNCHANGED <<all_membership_data, august_2025, consulted>>

DetailHeaderRow ==
    <<"Order ID", "Amount", "Tax", "Tax_Percentage", "Final_Tax", "Membership Type">>

\* detailed_data (lines 127-154): one row for each row of the frame, in its
\* order.  A row is kept by the cells it is computed from (membershipid,
\* total, tax, membershiptypename); the percentage and the final tax are
\* not computed here.
MembershipDetailData(df) ==
    <<DetailHeaderRow>>
    \o [i \in 1..Len(df) |->
          <<df[i].membershipid, df[i].total, df[i].tax, df[i].membershiptypename>>]

\* Lines 115-181: the detail section, when there are rows.
membership_detail ==
    /\ pc = "membership_summarized"
    /\ IF Len(august_2025) > 0
       THEN /\ story' = story \o
                  <<PageBreak,
                    Paragraph("Heading1", "SAMPLE DATA WITH FINAL_TAX", <<>>),
                    Spacer,
                    Paragraph("Normal", "Total Records: {n} membership transactions (August 2025)",
                              <<Len(august_2025)>>),
                    Spacer,
                    Table(MembershipDetailData(august_2025))>>
            /\ UNCHANGED stdout
       ELSE /\ stdout' = Append(stdout, "No membership data found for August 2025")
            /\ UNCHANGED story
    /\ pc' = "membership_detailed"
    /\ UNCHANGED <<files, loaded, prepared, filtered, trans_aug_grouped, results,
                   summary, second, error, exit_status, filename, disk, run, standalone>>

\* Lines 184-186: doc.build(elements) and the end of the script.
membership_build ==
    /\ pc = "membership_detailed"
    /\ disk' = {f \in disk : f.name # filename}
               \cup {[name |-> filename, content |-> story, run |-> run]}
    /\ stdout' = Append(stdout, "PDF generated")
    /\ exit_status' = 0
    /\ pc' = "membership_done"
    /\ UNCHANGED <<files, loaded, prepared, filtered, trans_aug_grouped, results,
                   summary, second, error, story, filename, run, standalone>>

NextMembership ==
    \/ membership_read_excel
    \/ membership_filter_updatedat
    \/ membership_filter_updatedat_raises
    \/ membership_fallback
    \/ membership_fallback_raises
    \/ membership_summary
    \/ membership_summary_raises
    \/ membership_detail
    \/ membership_build

SpecMembership == InitMembership /\ [][NextMembership]_vars

\* Indexes of the sheet's rows whose cell of a date column is a date of
\* August 2025.
UpdatedInAugust ==
    {i \in 1..Len(MembershipFile.rows) : IsAugust2025(MembershipFile.rows[i].updatedat)}

PurchasedInAugust ==
    {i \in 1..Len(MembershipFile.rows) : IsAugust2025(MembershipFile.rows[i].purchasedon)}

\* df holds exactly the sheet's rows of the indexes in S, once each, in sheet order.
IsSelection(df, S) ==
    /\ Len(df) = Cardinality(S)
    /\ \A i \in 1..Len(df) :
          /\ df[i].idx \in S
          /\ df[i].membershipid = MembershipFile.rows[df[i].idx].membershipid
          /\ df[i].membershiptypename = MembershipFile.rows[df[i].idx].membershiptypename
          /\ df[i].total = MembershipFile.rows[df[i].idx].total
          /\ df[i].tax = MembershipFile.rows[df[i].idx].tax
    /\ \A i, j \in 1..Len(df) : i < j => df[i].idx < df[j].idx

MembershipSelected ==
    pc \in {"membership_selected", "membership_summarized", "membership_detailed",
            "membership_done"}

FallbackChoice ==
    /\ pc \in {"membership", "membership_loaded", "membership_filtered"} =>
          "purchasedon" \notin consulted
    /\ MembershipSelected =>
          /\ "purchasedon" \in consulted <=> UpdatedInAugust = {}
          /\ UpdatedInAugust # {} => IsSelection(august_2025, UpdatedInAugust)
          /\ UpdatedInAugust = {} => IsSelection(august_2025, PurchasedInAugust)
    /\ pc = "membership_failed" /\ "purchasedon" \in consulted => Len(august_2025) > 0

NoDataReport ==
    pc = "membership_done" =>
        \E f \in disk :
            LET tables == SelectSeq(f.content, LAMBDA x : x.flowable = "Table")
            IN  /\ f.name = filename
                /\ IF UpdatedInAugust = {} /\ PurchasedInAugust = {}
                   THEN /\ Len(tables) = 1
                        /\ tables[1].args =
                              <<SummaryHeaderRow,
                                <<"2025", "8", "No Data", "0.00", "0.00", "0.00">>>>
                        /\ \A i \in 1..Len(f.content) : f.content[i].flowable # "PageBreak"
                   ELSE /\ Len(tables) = 2
                        /\ tables[2].args[1] = DetailHeaderRow
                        /\ Len(tables[2].args) = 1 + Len(august_2025)
                        /\ \A i \in 1..Len(tables[1].args) :
                              tables[1].args[i][3] # "No Data"

\* C18: membership.py converts and filters on purchasedon if and only if
\* the filter on updatedat gave no row of August 2025; with at least one
\* such row the result is exactly those rows; the fallback is made at most
\* once (after it neither the selection nor the columns consulted change),
\* and when it gives no row either the report is written with the 'No
\* Data' summary row and no detail table.
C18_FallbackIffNoPrimaryRows ==
    /\ [](FallbackChoice /\ NoDataReport)
    /\ [][("purchasedon" \in consulted) => UNCHANGED <<consulted, august_2025>>]_vars

\* A report written after both filters gave no row of a sheet that has rows.
C18_Witness ==
    /\ pc = "membership_done"
    /\ Len(MembershipFile.rows) > 0
    /\ consulted = {"updatedat", "purchasedon"}
    /\ Len(august_2025) = 0

(***************************************************************************)
(* The pages of the two listings.                                          *)
(***************************************************************************)

\* The tables of a story whose header row is the given one, in order.
ListingTables(s, header_row) ==
    SelectSeq(s, LAMBDA x : x.flowable = "Table" /\ x.args[1] = header_row)

\* The data rows of the tables, page after page.
RECURSIVE DataRows(_)
DataRows(tables) ==
    IF tables = <<>> THEN <<>>
    ELSE Tail(Head(tables).args) \o DataRows(Tail(tables))

\* The continuation headings of a listing, in order.
ContinuationHeadings(s, continued) ==
    SelectSeq(s, LAMBDA x : x.flowable = "Paragraph" /\ x.text = continued)

MonthDayLess(a, b) == a[1] < b[1] \/ (a[1] = b[1] /\ a[2] < b[2])

\* The listing of the records (each <<Order ID, month and day, amount>>) in
\* the story s: ceil(n / 30) tables of the header row and 1 to 30 data rows;
\* the data rows taken together are numbered 1..n, ascend in the date and hold
\* every record as often as the frame does; a heading stands before every
\* table but the first and names the numbers of the first and the last row
\* of that table.
Paginated(s, header_row, continued, records) ==
    LET n        == Len(records)
        tables   == ListingTables(s, header_row)
        rows     == DataRows(tables)
        headings == ContinuationHeadings(s, continued)
        RowKey(row) == <<row[2], row[3], row[4].value>>
    IN  /\ Len(tables) = (n + records_per_page - 1) \div records_per_page
        /\ \A i \in 1..Len(tables) : Len(tables[i].args) - 1 \in 1..records_per_page
        /\ Len(rows) = n
        /\ \A k \in 1..n : rows[k][1] = k
        /\ \A k \in 1..(n - 1) : ~MonthDayLess(rows[k + 1][3], rows[k][3])
        /\ \A i \in 1..n :
              Cardinality({k \in 1..n : RowKey(rows[k]) = records[i]})
                  = Cardinality({j \in 1..n : records[j] = records[i]})
        /\ Len(headings) = IF n = 0 THEN 0 ELSE Len(tables) - 1
        /\ \A j \in 1..Len(headings) :
              LET page == Tail(tables[j + 1].args)
              IN  /\ headings[j].args = <<page[1][1], page[Len(page)][1]>>
                  /\ headings[j].args[1] = records_per_page * j + 1
                  /\ \E p \in 1..(Len(s) - 2) :
                        /\ s[p].flowable = "Paragraph"
                        /\ s[p] = headings[j]
                        /\ s[p + 2].flowable = "Table"
                        /\ s[p + 2].args = tables[j + 1].args

TransRecords ==
    [i \in 1..Len(trans_aug_grouped) |->
        <<trans_aug_grouped[i].OrderID, MonthDay(trans_aug_grouped[i].TransactionDate),
          trans_aug_grouped[i].Amount>>]

TaxRecords ==
    [i \in 1..Len(tax_aug) |->
        <<tax_aug[i].OrderID, MonthDay(tax_aug[i].Date), tax_aug[i].TotalSum>>]

\* C19: the all-transactions and the all-tax listing of n records are split
\* into ceil(n / 30) tables of the header row and at most 30 data rows; the
\* data rows of the tables in order are the records 1..n, each once, in date
\* order, none skipped or repeated where a page ends; each continuation
\* heading names the first and the last record number of its page.
C19_Pagination ==
    pc \in {"tax_records", "recommendations", "built", "pdf_done"} =>
        /\ Paginated(story, TransHeaderRow,
                     "ALL TRANSACTION RECORDS (Continued - Records {a} to {b})",
                     TransRecords)
        /\ Paginated(story, TaxHeaderRow,
                     "ALL TAX RECORDS (Continued - Records {a} to {b})", TaxRecords)

\* A report of more than 30 orders and tax records, written: each listing
\* has a second page.
C19_Witness ==
    /\ pc = "built"
    /\ Len(trans_aug_grouped) > records_per_page
    /\ Len(tax_aug) > records_per_page
    /\ Len(ContinuationHeadings(story,
              "ALL TAX RECORDS (Continued - Records {a} to {b})")) = 1

(***************************************************************************)
(* The recommendations of the PDF and of the console summary.              *)
(***************************************************************************)

\* The paragraphs of a story with the given text.
ParagraphsOf(s, text) ==
    SelectSeq(s, LAMBDA x : x.flowable = "Paragraph" /\ x.text = text)

MissingRecordTexts ==
    {"Investigate {n} missing Order IDs in Tax Report system",
     "Check if cash transactions are properly recorded in tax system",
     "Verify tax calculation process for missing orders",
     "Contact tax system administrator to resolve missing records"}

DiscrepancyTexts ==
    {"Review {n} orders with amount discrepancies",
     "Verify tip and tax calculations in Tax Report",
     "Cross-check amount calculations with source systems",
     "Update tax calculation formulas if needed"}

ConsistentText == "All data is consistent - no action required!"

\* The recommendations section of the story s makes the three-way choice on
\* the counts, and the console summary of the same results makes the same.
SameChoice(s, missing, significant, console) ==
    /\ \A text \in MissingRecordTexts :
          Len(ParagraphsOf(s, text)) = IF Len(missing) > 0 THEN 1 ELSE 0
    /\ \A text \in DiscrepancyTexts :
          Len(ParagraphsOf(s, text)) = IF Len(significant) > 0 THEN 1 ELSE 0
    /\ Len(ParagraphsOf(s, ConsistentText))
          = IF Len(missing) = 0 /\ Len(significant) = 0 THEN 1 ELSE 0
    /\ \A i \in 1..Len(s) :
          /\ (s[i].flowable = "Paragraph"
                /\ s[i].text = "Investigate {n} missing Order IDs in Tax Report system")
                => s[i].args = <<Len(missing)>>
          /\ (s[i].flowable = "Paragraph"
                /\ s[i].text = "Review {n} orders with amount discrepancies")
                => s[i].args = <<Len(significant)>>
    /\ console.missing_actions
          <=> ParagraphsOf(s, "Investigate {n} missing Order IDs in Tax Report system") # <<>>
    /\ console.mismatch_actions
          <=> ParagraphsOf(s, "Review {n} orders with amount discrepancies") # <<>>
    /\ console.no_action_required <=> ParagraphsOf(s, ConsistentText) # <<>>

\* C20: the recommendations section has the missing-record recommendations
\* exactly when missing_in_tax is non-empty, the discrepancy recommendations
\* exactly when significant_mismatches is non-empty, and 'All data is
\* consistent - no action required!' exactly when both are empty; the console
\* summary of the same results makes the same choice.
C20_SameThreeWayChoice ==
    pc \in {"recommendations", "built", "pdf_done"} =>
        SameChoice(story, missing_in_tax, significant_mismatches,
                   SummaryReport(trans_aug_grouped, tax_aug, missing_in_tax,
                                 merged_comparison, significant_mismatches))

\* A report written with missing orders and no mismatch: the first group of
\* recommendations alone.
C20_Witness ==
    /\ pc = "built"
    /\ Len(missing_in_tax) > 0
    /\ Len(significant_mismatches) = 0
    /\ ParagraphsOf(story, "Contact tax system administrator to resolve missing records") # <<>>
    /\ ParagraphsOf(story, ConsistentText) = <<>>

(***************************************************************************)
(* The order of the stages.                                                *)
(***************************************************************************)

\* The positions of main() (POSComparisionReport.py lines 218-237) and of
\* generate_pdf_report (PDF_Report_Generator.py lines 714-742), in the order
\* of their statements.
MainStages ==
    <<"start", "loaded", "trans_prepared", "tax_prepared", "filtered", "grouped",
      "missing_found", "mismatches_found", "summarized", "done">>

PdfStages ==
    <<"generate_pdf_report", "analyzed", "document", "title", "summary", "transactions",
      "tax_records", "recommendations", "built", "pdf_done">>

\* b is the position right after a.
NextStage(a, b) ==
    \E stages \in {MainStages, PdfStages} :
        \E i \in 1..(Len(stages) - 1) : stages[i] = a /\ stages[i + 1] = b

\* The run was cut short by an exception: nothing is resumed from there.
CutShort(a, b) ==
    \/ /\ b = "failed"
       /\ \E i \in 1..(Len(MainStages) - 2) : MainStages[i] = a
    \/ /\ b = "raised"
       /\ \E i \in 1..(Len(PdfStages) - 2) : PdfStages[i] = a
    \/ a = "raised" /\ b = "pdf_failed"

\* Every local of main() is bound by the one call that returns it.
BoundByItsStage ==
    /\ <<WoodTrans, WoodTax>>' # <<WoodTrans, WoodTax>> => pc = "start" /\ pc' = "loaded"
    /\ trans_pos_module_df' # trans_pos_module_df
          => pc = "loaded" /\ pc' = "trans_prepared"
    /\ tax_pos_df' # tax_pos_df => pc = "trans_prepared" /\ pc' = "tax_prepared"
    /\ trans_aug' # trans_aug => pc = "tax_prepared" /\ pc' = "filtered"
    /\ tax_aug' # tax_aug
          => \/ pc = "tax_prepared" /\ pc' = "filtered"
             \/ pc = "generate_pdf_report" /\ pc' = "analyzed"
    /\ trans_aug_grouped' # trans_aug_grouped
          => \/ pc = "filtered" /\ pc' = "grouped"
             \/ pc = "generate_pdf_report" /\ pc' = "analyzed"
    /\ missing_in_tax' # missing_in_tax
          => \/ pc = "grouped" /\ pc' = "missing_found"
             \/ pc = "generate_pdf_report" /\ pc' = "analyzed"
    /\ <<merged_comparison, significant_mismatches>>'
              # <<merged_comparison, significant_mismatches>>
          => \/ pc = "missing_found" /\ pc' = "mismatches_found"
             \/ pc = "generate_pdf_report" /\ pc' = "analyzed"

\* The report is made of the results of a finished reconciliation.
ReportAfterReconciliation ==
    /\ summary' # summary
          => /\ pc = "mismatches_found"
             /\ summary'.text = SummaryReport(trans_aug_grouped, tax_aug, missing_in_tax,
                                              merged_comparison, significant_mismatches)
    /\ story' # story
          => \E i \in 2..(Len(PdfStages) - 2) : PdfStages[i] = pc

\* C21: in a run the stages execute at most once each and in the order
\* load, prepare and filter, group, missing records, mismatches, report:
\* every step goes from a stage to the one right after it or ends the run
\* with the exception, no stage is entered again, every result is bound by
\* its own stage only, and the report starts only after the reconciliation
\* has produced missing_in_tax, the matched orders and significant_mismatches.
C21_LinearSinglePass ==
    [][/\ pc' # pc => NextStage(pc, pc') \/ CutShort(pc, pc')
       /\ BoundByItsStage
       /\ ReportAfterReconciliation]_vars

\* A run that went through every stage and printed the report of a
\* reconciliation with a missing order.
C21_Witness ==
    /\ pc = "done"
    /\ summary.printed
    /\ Len(missing_in_tax) > 0
    /\ Len(merged_comparison) > 0

(***************************************************************************)
(* The tables passed to the functions of the POS pipeline.                 *)
(***************************************************************************)

\* The step is the call at position a of main(), returning.
Returns(a, b) == pc = a /\ pc' = b

\* C22: prepare_transaction_data, prepare_tax_data, filter_august_data,
\* group_transaction_data, find_missing_records and find_amount_mismatches
\* leave the tables passed in as they were: after each call returns, its
\* arguments (the raw transactions, the raw tax records, the prepared
\* frames, the filtered rows, G and T) have the rows, columns and values
\* they had before the call.
C22_InputsUnchanged ==
    [][/\ Returns("loaded", "trans_prepared") => UNCHANGED WoodTrans
       /\ Returns("trans_prepared", "tax_prepared") => UNCHANGED WoodTax
       /\ Returns("tax_prepared", "filtered") => UNCHANGED <<trans_pos_module_df, tax_pos_df>>
       /\ Returns("filtered", "grouped") => UNCHANGED trans_aug
       /\ Returns("grouped", "missing_found") => UNCHANGED <<trans_aug_grouped, tax_aug>>
       /\ Returns("missing_found", "mismatches_found")
             => UNCHANGED <<trans_aug_grouped, tax_aug>>]_vars

\* All six calls have returned, each with rows to work on: the raw sheet
\* holds a row the preparation left out, and G and T share an order.
C22_Witness ==
    /\ pc = "mismatches_found"
    /\ Len(WoodTrans) > Len(trans_pos_module_df)
    /\ Len(trans_aug) > 0
    /\ Len(tax_aug) > 0
    /\ Len(merged_comparison) > 0

(***************************************************************************)
(* Amounts as the reports show them.                                       *)
(***************************************************************************)

\* f'{x:.2f}': the number of cents shown for a float64, the nearest to
\* 100 * x (half to even), with the sign of x.
ToCents(x) ==
    LET p    == 100 * x.mag[3]
        q    == 100 * x.mag[2] + (p \div LimbBase)
        h    == 100 * (x.mag[1] % 2^19) + (q \div LimbBase)
        c    == 100 * (x.mag[1] \div 2^19) + (h \div 2^19)
        frac == <<h % 2^19, q % LimbBase, p % LimbBase>>
        half == <<2^18, 0, 0>>
        up   == MagLess(half, frac) \/ (frac = half /\ c % 2 = 1)
        n    == IF up THEN c + 1 ELSE c
    IN  IF x.neg THEN -n ELSE n

\* C24: grouping loses no money: every filtered transaction row, a row with
\* an empty Order ID included, contributes to exactly one grouped order, and
\* the sum of Amount over the grouped orders is the sum of Amount over the
\* filtered rows.
C24_GroupingLosesNoMoney ==
    AfterGrouping =>
        /\ \A i \in 1..Len(trans_aug) :
              Cardinality({j \in 1..Len(trans_aug_grouped) :
                              trans_aug_grouped[j].OrderID = trans_aug[i].OrderID}) = 1
        /\ ToCents(SeriesSum(AmountColumn(trans_aug_grouped), Len(trans_aug_grouped)))
              = ToCents(SeriesSum(AmountColumn(trans_aug), Len(trans_aug)))

(***************************************************************************)
(* The totals of the executive summary.                                    *)
(***************************************************************************)

\* The Metric / Value tables of a story.
SummaryTables(s) ==
    SelectSeq(s, LAMBDA x : x.flowable = "Table" /\ x.args[1] = <<"Metric", "Value">>)

\* The cents shown in the row of a Metric / Value table with the given label.
ShownCents(data, label) ==
    LET i == CHOOSE k \in 2..Len(data) : data[k][1] = label
    IN  ToCents(data[i][2].value)

\* The cents of the Total Sum of the tax records lo..hi whose Order ID no
\* grouped order has.
RECURSIVE UnmatchedTaxCents(_, _, _, _)
UnmatchedTaxCents(G, T, lo, hi) ==
    IF lo > hi THEN 0
    ELSE IF lo = hi
         THEN IF IsIn(T[lo].OrderID, OrderIDColumn(G)) THEN 0 ELSE ToCents(T[lo].TotalSum)
    ELSE LET mid  == (lo + hi) \div 2
             left == UnmatchedTaxCents(G, T, lo, mid)
         IN  IF left >= 0 THEN left + UnmatchedTaxCents(G, T, mid + 1, hi) ELSE left

\* C25: in the executive summary Total Difference equals Missing Amount
\* plus Difference Amount minus the Total Sum of the tax records whose
\* Order ID is not in G; with every tax Order ID unique and present in G,
\* Total Difference = Missing Amount + Difference Amount.
C25_TotalsConsistent ==
    \A i \in 1..Len(SummaryTables(story)) :
        LET data == SummaryTables(story)[i].args
        IN  ShownCents(data, "Total Difference")
              = ShownCents(data, "Missing Amount") + ShownCents(data, "Difference Amount")
                - UnmatchedTaxCents(trans_aug_grouped, tax_aug, 1, Len(tax_aug))

\* ------------------------------------------------------------------------
\* src/Archive/membership_summary.py and
\* src/PDF Generators/Simple_Membership_PDF.py: the membership transactions
\* of August 2025 (lines 14-69 of the first, 30-78 of the second)
\* ------------------------------------------------------------------------

Id_MEM2 == <<77, 69, 77, 50>>

\* WoodTrans['Module'] = np.where(...): the column is added to the frame read.
WithModuleColumn(WT) == [i \in 1..Len(WT) |-> [Module |-> ModuleOf(WT[i])] @@ WT[i]]

IsMemberships(r) == r.Module = "memberships"

\* pd.to_datetime(..., errors='coerce') and dt.to_period('M') on the
\* transaction date.
WithCoercedMonth(r) ==
    [TransactionDate |-> ToDatetime(r.TransactionDate),
     Month |-> ToPeriodM(ToDatetime(r.TransactionDate))] @@ r

\* WoodTrans_memberships[WoodTrans_memberships['Month'] == '2025-08']
AugustMemberships(WT) ==
    LET WoodTrans_memberships == SelectSeq(WithModuleColumn(WT), IsMemberships)
    IN  FilterAugust([i \in 1..Len(WoodTrans_memberships) |->
                         WithCoercedMonth(WoodTrans_memberships[i])])

\* SourceMembership[SourceMembership['membershipid'].notna()]
MembershipDf(SourceMembership) == SelectSeq(SourceMembership, LAMBDA r : r.membershipid # NaN)

\* The rows a left merge returns for one left row: one per right row of the
\* same key, in the order of the right frame, or one with empty right
\* columns when there is none.
RightRowsOf(key, right, right_key) ==
    SelectSeq(right, LAMBDA r : r[right_key] = key)

LeftMergeRow(l, right_rows, empty) ==
    IF right_rows = <<>> THEN <<empty @@ l>>
    ELSE [j \in 1..Len(right_rows) |-> right_rows[j] @@ l]

\* DataFrame.merge(right, left_on=..., right_on=..., how='left'): left order
\* is kept.  right holds the selected columns only.
RECURSIVE LeftMerge(_, _, _, _, _)
LeftMerge(left, left_key, right, right_key, empty) ==
    IF left = <<>> THEN <<>>
    ELSE LeftMergeRow(Head(left), RightRowsOf(Head(left)[left_key], right, right_key), empty)
         \o LeftMerge(Tail(left), left_key, right, right_key, empty)

\* Membership_df[['membershipid', 'subscriptionstartdate']]
SubscriptionColumns(df) ==
    [i \in 1..Len(df) |->
        [membershipid |-> df[i].membershipid,
         subscriptionstartdate |-> df[i].subscriptionstartdate]]

NoSubscription == [membershipid |-> NaN, subscriptionstartdate |-> EmptyDate]

\* Series.dt.date of two converted cells compared with ==: NaT equals nothing.
SameDate(a, b) == a.kind = "ts" /\ b.kind = "ts" /\ a.y = b.y /\ a.m = b.m /\ a.d = b.d

\* np.where(Transaction Date .dt.date == subscriptionstartdate .dt.date,
\*          'New', 'Recurring')
WithMembershipType(r) ==
    LET start == ToDatetime(r.subscriptionstartdate)
    IN  [TransactionDate |-> ToDatetime(r.TransactionDate),
         subscriptionstartdate |-> start,
         MembershipType |-> IF SameDate(ToDatetime(r.TransactionDate), start)
                            THEN "New" ELSE "Recurring"] @@ r

\* august_2025 up to the match status: the merge, the type, and
\* august_2025['Order ID'].astype(str).
MembershipTransactions(WT, SourceMembership) ==
    LET merged == LeftMerge(AugustMemberships(WT), "OrderID",
                            SubscriptionColumns(MembershipDf(SourceMembership)),
                            "membershipid", NoSubscription)
    IN  [i \in 1..Len(merged) |->
            [idx |-> i, OrderID |-> AsStr(merged[i].OrderID)]
                @@ WithMembershipType(merged[i])]

\* tax_august_2025: WoodTax of August 2025, dates coerced, Order ID as str.
TaxAugust2025(WX) ==
    LET with_month == [i \in 1..Len(WX) |->
                          [Date |-> ToDatetime(WX[i].Date),
                           Month |-> ToPeriodM(ToDatetime(WX[i].Date))] @@ WX[i]]
        august     == FilterAugust(with_month)
    IN  [i \in 1..Len(august) |-> [OrderID |-> AsStr(august[i].OrderID)] @@ august[i]]

\* august_orders.intersection(tax_orders) and august_orders - tax_orders
Matched(august, tax_august) == OrderIDs(august) \cap OrderIDs(tax_august)

\* The tax orders without a transaction.
NotMatched_TaxSide(august, tax_august) == OrderIDs(tax_august) \ OrderIDs(august)

NotMatched(august, tax_august) == OrderIDs(august) \ OrderIDs(tax_august)

\* august_2025['Membership Type'].value_counts().get(type, 0)
TypeCount(august, type) ==
    Cardinality({i \in 1..Len(august) : august[i].MembershipType = type})

\* august_2025[august_2025['Order ID'].isin(ids)]
RecordsOf(august, ids) == SelectSeq(august, LAMBDA r : r.OrderID \in ids)

\* august_2025[august_2025['Membership Type'] == type]
RecordsOfType(august, type) == SelectSeq(august, LAMBDA r : r.MembershipType = type)

\* One row of 'Memebership.xlsx' as these two scripts read it.
SubscriptionCell(id, start) == [membershipid |-> id, subscriptionstartdate |-> start]

IndexRows(cells) == [i \in 1..Len(cells) |-> [idx |-> i] @@ cells[i]]

\* ------------------------------------------------------------------------
\* src/Archive/membership_summary.py: the console summary
\* ------------------------------------------------------------------------

\* A printed line: the text of the f-string and the values formatted in it.
Line(text, args) == [text |-> text, args |-> args]

\* Lines 49-74: the title, the match status and the membership types.
TallyLines(m, n, new, recurring) ==
    <<Line("WOODLAND PLAY CAFE - AUGUST 2025 MEMBERSHIP SUMMARY", <<>>),
      Line("MATCH STATUS:", <<>>),
      Line("Matched: {}", <<Cardinality(m)>>),
      Line("Not Matched: {}", <<Cardinality(n)>>),
      Line("MEMBERSHIP TYPES:", <<>>),
      Line("New: {}", <<new>>),
      Line("Recurring: {}", <<recurring>>)>>

\* Lines 81-83 and 88-90: one line per record, with its type.
StatusRecordLines(records) ==
    [i \in 1..Len(records) |->
        Line("Order ID: {} | Amount: {} | Type: {} | Source: {}",
             <<records[i].OrderID, Money(records[i].Amount), records[i].MembershipType,
               records[i].Source>>)]

\* Lines 95-97 and 102-104: one line per record.
TypeRecordLines(records) ==
    [i \in 1..Len(records) |->
        Line("Order ID: {} | Amount: {} | Source: {}",
             <<records[i].OrderID, Money(records[i].Amount), records[i].Source>>)]

\* The headings of lines 79, 86, 93 and 100 with the number each holds.
MatchedHeading == Line("MATCHED RECORDS ({}):", <<9>>)

NotMatchedHeading == Line("NOT MATCHED RECORDS ({}):", <<22>>)

NewHeading == Line("NEW MEMBERSHIPS ({}):", <<20>>)

RecurringHeading == Line("RECURRING MEMBERSHIPS ({}):", <<12>>)

\* Lines 76-104: the four lists.
DetailLines(august, m, n) ==
    <<Line("DETAILED RECORDS:", <<>>)>>
    \o <<MatchedHeading>> \o StatusRecordLines(RecordsOf(august, m))
    \o <<NotMatchedHeading>> \o StatusRecordLines(RecordsOf(august, n))
    \o <<NewHeading>> \o TypeRecordLines(RecordsOfType(august, "New"))
    \o <<RecurringHeading>> \o TypeRecordLines(RecordsOfType(august, "Recurring"))

\* Lines 10-74: the three sheets are read and the tallies printed.
summary_tally ==
    /\ pc = "membership_summary"
    /\ LET august == MembershipTransactions(IndexTrans(TransReportFile),
                                            IndexRows(MembershipFile.rows))
           tax    == TaxAugust2025(IndexTax(TaxReportFile))
       IN  /\ august_2025' = august
           /\ matched' = Matched(august, tax)
           /\ not_matched' = NotMatched(august, tax)
           /\ new_count' = TypeCount(august, "New")
           /\ recurring_count' = TypeCount(august, "Recurring")
           /\ stdout' = stdout \o TallyLines(Matched(august, tax), NotMatched(august, tax),
                                            TypeCount(august, "New"),
                                            TypeCount(august, "Recurring"))
    /\ pc' = "summary_tallied"
    /\ UNCHANGED <<files, loaded, prepared, filtered, trans_aug_grouped, results, summary,
                   second, error, exit_status, report, trans_filtered, MembershipFile,
                   all_membership_data, consulted, membership_summary_df>>

\* Lines 76-104.
summary_list ==
    /\ pc = "summary_tallied"
    /\ stdout' = stdout \o DetailLines(august_2025, matched, not_matched)
    /\ pc' = "summary_listed"
    /\ UNCHANGED <<files, loaded, prepared, filtered, trans_aug_grouped, results, summary,
                   second, error, exit_status, report, standalone>>

\* pd.read_excel raises on a missing workbook; nothing catches it.
summary_raises ==
    /\ pc = "membership_summary"
    /\ error' = "FileNotFoundError"
    /\ exit_status' = 1
    /\ pc' = "summary_failed"
    /\ UNCHANGED <<files, loaded, prepared, filtered, trans_aug_grouped, results, summary,
                   second, stdout, report, standalone>>

\* The last statement of the module has run.
summary_ends ==
    /\ pc = "summary_listed"
    /\ exit_status = Running
    /\ exit_status' = 0
    /\ UNCHANGED <<files, loaded, prepared, filtered, trans_aug_grouped, results, summary,
                   second, pc, error, stdout, report, standalone>>

NextSummary ==
    \/ summary_tally
    \/ summary_list
    \/ summary_raises
    \/ summary_ends

\* Rows of 'Transv1.xlsx' and of 'Tax.xlsx'.
MaxSimpleTransRows == 2

MaxSimpleTaxRows == 1

\* Membership transactions of August 2025 on the day 15 and on the day 3,
\* one of July, and a 'pos' sale.
SimpleTransCells ==
    {TransCell(Id_MEM1, 1000, Aug2025, "Main", "online"),
     TransCell(Id_MEM1, 500, Aug03, "Main", "online"),
     TransCell(Id_MEM2, 1000, Aug2025, "Main", "online"),
     TransCell(Id_MEM1, 1000, Jul2025, "Main", "online"),
     TransCell(Id_A1, 100, Aug2025, "Main", "pos")}

SimpleTaxCells ==
    {TaxCell(Id_MEM1, 1000, Aug2025, "memberships"),
     TaxCell(Id_MEM2, 1000, Aug2025, "memberships"),
     TaxCell(Id_MEM1, 1000, Jul2025, "memberships")}

\* 'Memebership.xlsx': no row, one row per membership, a membership on two
\* rows, a row without membershipid.
SubscriptionSheets ==
    {<<>>,
     <<SubscriptionCell(Id_MEM1, Aug2025)>>,
     <<SubscriptionCell(Id_MEM1, Jul2025), SubscriptionCell(Id_MEM2, Aug2025)>>,
     <<SubscriptionCell(Id_MEM1, Aug2025), SubscriptionCell(Id_MEM1, Jul2025)>>,
     <<SubscriptionCell(NaN, Aug2025)>>}

SimpleFiles ==
    /\ TransReportFile \in Tables(SimpleTransCells, MaxSimpleTransRows)
    /\ TaxReportFile \in Tables(SimpleTaxCells, MaxSimpleTaxRows)
    /\ FullHeaders
    /\ MembershipFile \in {[columns |-> {"membershipid", "subscriptionstartdate"},
                            rows |-> rows] : rows \in SubscriptionSheets}

InitSummary ==
    /\ SimpleFiles
    /\ pc = "membership_summary"
    /\ MainLocalsUnbound
    /\ ProcessStarts
    /\ NothingWritten
    /\ filename = None
    /\ trans_filtered = Unbound
    /\ all_membership_data = Unbound
    /\ august_2025 = Unbound
    /\ consulted = {}
    /\ TalliesUnbound

SpecSummary == InitSummary /\ [][NextSummary]_vars

(***************************************************************************)
(* The counts printed by membership_summary.py.                            *)
(***************************************************************************)

HeadingTexts ==
    {MatchedHeading.text, NotMatchedHeading.text, NewHeading.text, RecurringHeading.text}

IsHeading(line) == line.text \in HeadingTexts

IsRecordLine(line) ==
    line.text \in {"Order ID: {} | Amount: {} | Type: {} | Source: {}",
                   "Order ID: {} | Amount: {} | Source: {}"}

\* The number of record lines printed under the heading at position i.
ListedUnder(out, i) ==
    Cardinality({j \in (i + 1)..Len(out) :
                    /\ IsRecordLine(out[j])
                    /\ \A k \in (i + 1)..j : ~IsHeading(out[k])})

\* The number printed on the line with the given text.
NumberOn(out, text) ==
    LET i == CHOOSE k \in 1..Len(out) : out[k].text = text
    IN  out[i].args[1]

\* C23: every count shown equals the count computed in the run: the tally
\* lines show |matched|, |not_matched| and the numbers of new and recurring
\* records, and the number in each console heading (matched, not matched,
\* new, recurring) is the number of records listed under it.
C23_CountsAreComputed ==
    pc = "summary_listed" =>
        /\ NumberOn(stdout, "Matched: {}") = Cardinality(matched)
        /\ NumberOn(stdout, "Not Matched: {}") = Cardinality(not_matched)
        /\ NumberOn(stdout, "New: {}") = Len(RecordsOfType(august_2025, "New"))
        /\ NumberOn(stdout, "Recurring: {}") = Len(RecordsOfType(august_2025, "Recurring"))
        /\ \A i \in 1..Len(stdout) :
              IsHeading(stdout[i]) => stdout[i].args[1] = ListedUnder(stdout, i)

\* ------------------------------------------------------------------------
\* src/PDF Generators/Simple_Membership_PDF.py
\* ------------------------------------------------------------------------

\* A Table with the BACKGROUND commands of its TableStyle, in their order.
StyledTable(data, commands) ==
    [flowable |-> "Table", style |-> "", text |-> "", args |-> data, commands |-> commands]

\* ('BACKGROUND', (sc, sr), (ec, er), colour)
Background(sc, sr, ec, er, colour) ==
    [sc |-> sc, sr |-> sr, ec |-> ec, er |-> er, colour |-> colour]

\* reportlab adds the number of rows or columns to a negative index.
Normal(i, n) == IF i < 0 THEN i + n ELSE i

\* The cells a BACKGROUND command fills: the rectangle runs from the top of
\* row sr to the bottom of row er, and from the left of column sc to the
\* right of column ec; it is empty when sr is the row after er.
Fills(c, row, col, nrows, ncols) ==
    /\ Normal(c.sr, nrows) <= row /\ row <= Normal(c.er, nrows)
    /\ Normal(c.sc, ncols) <= col /\ col <= Normal(c.ec, ncols)

\* The colour of a cell (rows and columns from 0): that of the last command
\* that fills it, "none" when no command does.
CellColour(table, row, col) ==
    LET nrows == Len(table.args)
        ncols == Len(table.args[1])
        over  == {k \in 1..Len(table.commands) :
                     Fills(table.commands[k], row, col, nrows, ncols)}
    IN  IF over = {} THEN "none"
        ELSE table.commands[CHOOSE k \in over : \A j \in over : j <= k].colour

\* create_match_status_table (lines 82-94)
create_match_status_table(august, m, n) ==
    LET matched_records     == RecordsOf(august, m)
        not_matched_records == RecordsOf(august, n)
        matched_amount      == SeriesSum(AmountColumn(matched_records), Len(matched_records))
        not_matched_amount  == SeriesSum(AmountColumn(not_matched_records),
                                         Len(not_matched_records))
    IN  <<<<"Match Status", "Count", "Total Amount">>,
          <<"Matched", Cardinality(m), Money(matched_amount)>>,
          <<"Not Matched", Cardinality(n), Money(not_matched_amount)>>>>

\* create_membership_types_table (lines 96-108)
create_membership_types_table(august, new, recurring) ==
    LET new_records       == RecordsOfType(august, "New")
        recurring_records == RecordsOfType(august, "Recurring")
        new_amount        == SeriesSum(AmountColumn(new_records), Len(new_records))
        recurring_amount  == SeriesSum(AmountColumn(recurring_records),
                                       Len(recurring_records))
    IN  <<<<"Membership Type", "Count", "Total Amount">>,
          <<"New", new, Money(new_amount)>>,
          <<"Recurring", recurring, Money(recurring_amount)>>>>

DetailRow(r, status) ==
    <<r.OrderID, Money(r.Amount), r.MembershipType, r.Source, status>>

\* create_detailed_records_table (lines 110-137)
create_detailed_records_table(august, m, n) ==
    LET matched_records     == RecordsOf(august, m)
        not_matched_records == RecordsOf(august, n)
    IN  <<<<"Order ID", "Amount", "Type", "Source", "Status">>>>
        \o [i \in 1..Len(matched_records) |-> DetailRow(matched_records[i], "MATCHED")]
        \o [i \in 1..Len(not_matched_records) |->
               DetailRow(not_matched_records[i], "NOT MATCHED")]

\* Lines 187-196 and 204-213: the BACKGROUND commands of the two short tables.
SummaryBackgrounds(header, body) ==
    <<Background(0, 0, -1, 0, header), Background(0, 1, -1, -1, body)>>

\* Lines 221-234: the BACKGROUND commands of the detailed table.
DetailBackgrounds(m) ==
    <<Background(0, 0, -1, 0, "navy"),
      Background(0, 1, -1, -1, "lightgrey"),
      Background(4, 1, 4, Cardinality(m), "lightgreen"),
      Background(4, Cardinality(m) + 1, 4, -1, "lightcoral")>>

\* f"Simple_Membership_Summary_{timestamp}.pdf"
SimpleName(t) == FileName("Simple_Membership_Summary_", t)

\* Lines 173-235: the story of the report.
SimpleStory(august, m, n, new, recurring) ==
    LET total_amount == SeriesSum(AmountColumn(august), Len(august))
    IN  <<Paragraph("Title", "Woodland Play Cafe", <<>>),
          Paragraph("Title", "Membership Summary - August 2025", <<>>),
          Spacer,
          Paragraph("Heading", "TOTAL MEMBERSHIP REVENUE: {}", <<Money(total_amount)>>),
          Spacer,
          Paragraph("Heading", "MATCH STATUS", <<>>),
          StyledTable(create_match_status_table(august, m, n),
                      SummaryBackgrounds("darkblue", "beige")),
          Spacer,
          Paragraph("Heading", "MEMBERSHIP TYPES", <<>>),
          StyledTable(create_membership_types_table(august, new, recurring),
                      SummaryBackgrounds("darkgreen", "lightgrey")),
          Spacer,
          Paragraph("Heading", "DETAILED RECORDS", <<>>),
          StyledTable(create_detailed_records_table(august, m, n), DetailBackgrounds(m))>>

\* load_and_process_data (lines 17-80), called on line 142.
load_and_process_data ==
    /\ pc = "generate_pdf"
    /\ LET august == MembershipTransactions(IndexTrans(TransReportFile),
                                            IndexRows(MembershipFile.rows))
           tax    == TaxAugust2025(IndexTax(TaxReportFile))
       IN  /\ august_2025' = august
           /\ matched' = Matched(august, tax)
           /\ not_matched' = NotMatched(august, tax)
           /\ new_count' = TypeCount(august, "New")
           /\ recurring_count' = TypeCount(august, "Recurring")
    /\ pc' = "simple_loaded"
    /\ UNCHANGED <<files, loaded, prepared, filtered, trans_aug_grouped, results, summary,
                   second, process, report, trans_filtered, MembershipFile,
                   all_membership_data, consulted, membership_summary_df>>

\* pd.read_excel raises on a missing workbook.
load_and_process_data_raises ==
    /\ pc = "generate_pdf"
    /\ error' = "FileNotFoundError"
    /\ pc' = "simple_raised"
    /\ UNCHANGED <<files, loaded, prepared, filtered, trans_aug_grouped, results, summary,
                   second, stdout, exit_status, report, standalone>>

\* Lines 144-235: the name from the clock, the document and its story.
simple_create_story ==
    /\ pc = "simple_loaded"
    /\ \E t \in ClockReadings : filename' = SimpleName(t)
    /\ story' = SimpleStory(august_2025, matched, not_matched, new_count, recurring_count)
    /\ pc' = "simple_story"
    /\ UNCHANGED <<files, loaded, prepared, filtered, trans_aug_grouped, results, summary,
                   second, process, disk, run, standalone>>

\* Line 238: doc.build(story)
simple_doc_build ==
    /\ pc = "simple_story"
    /\ disk' = {f \in disk : f.name # filename}
               \cup {[name |-> filename, content |-> story, run |-> run]}
    /\ pc' = "simple_built"
    /\ UNCHANGED <<files, loaded, prepared, filtered, trans_aug_grouped, results, summary,
                   second, process, story, filename, run, standalone>>

\* The file cannot be written.
simple_doc_build_raises ==
    /\ pc = "simple_story"
    /\ error' = "PermissionError"
    /\ pc' = "simple_raised"
    /\ UNCHANGED <<files, loaded, prepared, filtered, trans_aug_grouped, results, summary,
                   second, stdout, exit_status, report, standalone>>

SimpleGenerated == "PDF generated"

SimpleCompleted == "PDF generation completed successfully!"

\* Lines 240-248: the messages of a run that returned.
simple_completed ==
    /\ pc = "simple_built"
    /\ stdout' = stdout \o <<SimpleGenerated, SimpleCompleted>>
    /\ pc' = "simple_done"
    /\ UNCHANGED <<files, loaded, prepared, filtered, trans_aug_grouped, results, summary,
                   second, error, exit_status, report, standalone>>

\* Lines 249-252: the except clause prints the error and does not raise.
simple_failed ==
    /\ pc = "simple_raised"
    /\ stdout' = Append(stdout, "Error")
    /\ pc' = "simple_failed"
    /\ UNCHANGED <<files, loaded, prepared, filtered, trans_aug_grouped, results, summary,
                   second, error, exit_status, report, standalone>>

\* The end of the __main__ block is the end of the module: status 0.
simple_ends ==
    /\ pc \in {"simple_done", "simple_failed"}
    /\ exit_status = Running
    /\ exit_status' = 0
    /\ UNCHANGED <<files, loaded, prepared, filtered, trans_aug_grouped, results, summary,
                   second, pc, error, stdout, report, standalone>>

NextSimple ==
    \/ load_and_process_data
    \/ load_and_process_data_raises
    \/ simple_create_story
    \/ simple_doc_build
    \/ simple_doc_build_raises
    \/ simple_completed
    \/ simple_failed
    \/ simple_ends

InitSimple ==
    /\ SimpleFiles
    /\ pc = "generate_pdf"
    /\ MainLocalsUnbound
    /\ ProcessStarts
    /\ NothingWritten
    /\ filename = None
    /\ trans_filtered = Unbound
    /\ all_membership_data = Unbound
    /\ august_2025 = Unbound
    /\ consulted = {}
    /\ TalliesUnbound

SpecSimple == InitSimple /\ [][NextSimple]_vars

(***************************************************************************)
(* The simple membership report.                                           *)
(***************************************************************************)

\* The report has been composed.
SimpleComposed == pc \in {"simple_story", "simple_built", "simple_done"}

\* The August 2025 membership transactions of the transaction export.
ExportedMemberships == AugustMemberships(IndexTrans(TransReportFile))

DetailHeader == <<"Order ID", "Amount", "Type", "Source", "Status">>

\* The detailed records table of a story, and its data rows.
DetailTable(s) == s[CHOOSE i \in TablesOf(s, DetailHeader) : TRUE]

DetailRows(s) == Tail(DetailTable(s).args)

\* The amount under a dollar format, in cents as shown.
Shown(money) == ToCents(money.value)

RECURSIVE CentsOf(_)
CentsOf(df) == IF df = <<>> THEN 0 ELSE ToCents(Head(df).Amount) + CentsOf(Tail(df))

\* The total at the top of the report.
TotalRevenue(s) ==
    Shown(ParagraphsOf(s, "TOTAL MEMBERSHIP REVENUE: {}")[1].args[1])

\* C26: in the simple membership report every August 2025 membership
\* transaction of the export appears exactly once: the left join with the
\* membership table neither drops nor duplicates a row, so august_2025 holds
\* the transactions of the export row for row, the detail listing has one
\* row per transaction of each Order ID, and the total membership revenue is
\* the sum of the exported amounts.
C26_EachTransactionOnce ==
    SimpleComposed =>
        /\ Len(august_2025) = Len(ExportedMemberships)
        /\ \A id \in OrderIDs(august_2025) :
              Cardinality({i \in 1..Len(DetailRows(story)) : DetailRows(story)[i][1] = id})
              = Cardinality({i \in 1..Len(ExportedMemberships) :
                                AsStr(ExportedMemberships[i].OrderID) = id})
        /\ TotalRevenue(story) = CentsOf(ExportedMemberships)

\* The match status table of a story.
MatchStatusTable(s) ==
    s[CHOOSE i \in TablesOf(s, <<"Match Status", "Count", "Total Amount">>) : TRUE].args

\* C27: in the simple membership report matched and not_matched are disjoint
\* and together are the distinct Order IDs of the August membership
\* transactions of the export, and the amount shown for 'Matched' plus the
\* amount shown for 'Not Matched' is the total membership revenue shown at
\* the top.
C27_MatchPartition ==
    SimpleComposed =>
        /\ matched \cap not_matched = {}
        /\ matched \cup not_matched
           = {AsStr(ExportedMemberships[i].OrderID) : i \in 1..Len(ExportedMemberships)}
        /\ Shown(MatchStatusTable(story)[2][3]) + Shown(MatchStatusTable(story)[3][3])
           = TotalRevenue(story)

\* A report with a matched and an unmatched order, both with revenue.
C27_Witness ==
    /\ pc = "simple_done"
    /\ matched # {}
    /\ not_matched # {}
    /\ Shown(MatchStatusTable(story)[2][3]) > 0
    /\ Shown(MatchStatusTable(story)[3][3]) > 0

\* C28: in the detailed records table of the simple membership report the
\* MATCHED rows precede the NOT MATCHED rows, and the status cell of each
\* MATCHED row is light green and of each NOT MATCHED row light coral.
C28_StatusColours ==
    SimpleComposed =>
        LET rows == DetailRows(story)
        IN  /\ \A i, j \in 1..Len(rows) :
                  rows[i][5] = "NOT MATCHED" /\ rows[j][5] = "MATCHED" => j < i
            /\ \A i \in 1..Len(rows) :
                  CellColour(DetailTable(story), i, 4)
                  = IF rows[i][5] = "MATCHED" THEN "lightgreen" ELSE "lightcoral"

\* ------------------------------------------------------------------------
\* src/FinalScript/new_membership_pdf.py
\* ------------------------------------------------------------------------

\* A cell of a float64 column that is empty.
IsNull(x) == x = FNaN

\* x > 0 on a float64 cell: False for nan.
Positive(x) == IsFinite(x) /\ ~x.neg /\ x.mag # ZeroMag

\* x < y on two finite values.
FLess(x, y) == FGreater(y, x)

\* Lines 53-58: the membership rows of August 2025 (the dates converted
\* with errors='raise').
CleanAugust(WT) ==
    LET WoodTrans_memberships == SelectSeq(WithModuleColumn(WT), IsMemberships)
        converted == [i \in 1..Len(WoodTrans_memberships) |->
                         [TransactionDate |->
                              ToDatetime(WoodTrans_memberships[i].TransactionDate)]
                         @@ WoodTrans_memberships[i]]
    IN  SelectSeq(converted, LAMBDA r : /\ r.TransactionDate.kind = "ts"
                                        /\ r.TransactionDate.y = 2025
                                        /\ r.TransactionDate.m = 8)

\* pd.to_datetime raises on a cell it cannot parse (line 53).
CleanDateRaises(WT) ==
    \E i \in 1..Len(WT) :
        ModuleOf(WT[i]) = "memberships" /\ ToDatetimeRaises(WT[i].TransactionDate)

\* Membership_df[["membershipid", "startdate"]], membershipid as str.
StartdateColumns(df) ==
    [i \in 1..Len(df) |->
        [membershipid |-> AsStr(df[i].membershipid), startdate |-> df[i].startdate]]

NoStartdate == [membershipid |-> NaN, startdate |-> EmptyDate]

\* "New" if pd.notnull(x) and x >= pd.Timestamp("2025-08-01") else "Recurring"
CleanMembershipType(startdate) ==
    IF startdate.kind = "ts" /\ ~DateLess(startdate, Timestamp(2025, 8, 1))
    THEN "New" ELSE "Recurring"

\* WoodTax[["Order ID", "Tax"]], Order ID as str.
TaxColumnsOf(WX) ==
    [i \in 1..Len(WX) |-> [OrderID |-> AsStr(WX[i].OrderID), Tax |-> WX[i].Tax]]

NoTaxRow == [OrderID |-> NaN, Tax |-> FNaN]

\* Lines 62-86: the two left merges and the membership type.
CleanMerged(WT, SourceMembership, WX) ==
    LET august   == CleanAugust(WT)
        as_str   == [i \in 1..Len(august) |->
                        [OrderID |-> AsStr(august[i].OrderID)] @@ august[i]]
        with_start == LeftMerge(as_str, "OrderID",
                                StartdateColumns(MembershipDf(SourceMembership)),
                                "membershipid", NoStartdate)
        typed    == [i \in 1..Len(with_start) |->
                        [startdate |-> ToDatetime(with_start[i].startdate),
                         MembershipType |->
                             CleanMembershipType(ToDatetime(with_start[i].startdate))]
                        @@ with_start[i]]
        with_tax == LeftMerge(typed, "OrderID", TaxColumnsOf(WX), "OrderID", NoTaxRow)
    IN  [i \in 1..Len(with_tax) |-> [idx |-> i] @@ with_tax[i]]

F100 == FromInt(100)

\* (row["Tax"] / row["Amount"] * 100) if pd.notnull(row["Tax"]) and
\* row["Amount"] > 0 else 0
TaxPercentage(r) ==
    IF ~IsNull(r.Tax) /\ Positive(r.Amount) THEN FMul(FDiv(r.Tax, r.Amount), F100)
    ELSE FZero

\* The rows a mode is taken over: all of them.
WithTaxValue_AllRows(df) == df

\* august_2025.loc[august_2025["Tax"].notnull(), ...]
WithTaxValue(df) == SelectSeq(df, LAMBDA r : ~IsNull(r.Tax))

\* Series.mode(): the values that occur most often, in ascending order.
Count(col, v) == Cardinality({i \in 1..Len(col) : col[i] = v})

Modes(col) ==
    {col[i] : i \in {k \in 1..Len(col) :
                        \A j \in 1..Len(col) : Count(col, col[j]) <= Count(col, col[k])}}

Smallest(values) == CHOOSE v \in values : \A w \in values : ~FLess(w, v)

\* tax_rate = 0.0888
FallbackRate == FDiv(FromInt(111), FromInt(1250))

\* Lines 95-99
TaxRate(df) ==
    LET common_tax_percentage ==
            Modes([i \in 1..Len(WithTaxValue(df)) |-> WithTaxValue(df)[i].Tax_Percentage])
    IN  IF common_tax_percentage # {} THEN FDiv(Smallest(common_tax_percentage), F100)
        ELSE FallbackRate

\* row["Tax"] if pd.notnull(row["Tax"]) else row["Amount"] * tax_rate
FinalTax(r, tax_rate) == IF ~IsNull(r.Tax) THEN r.Tax ELSE FMul(r.Amount, tax_rate)

\* load_membership_data (lines 16-110)
LoadMembershipData(WT, SourceMembership, WX) ==
    LET merged  == CleanMerged(WT, SourceMembership, WX)
        with_pc == [i \in 1..Len(merged) |->
                       [Tax_Percentage |-> TaxPercentage(merged[i])] @@ merged[i]]
        rate    == TaxRate(with_pc)
    IN  [i \in 1..Len(with_pc) |->
            [Final_Tax |-> FinalTax(with_pc[i], rate),
             Year |-> with_pc[i].TransactionDate.y,
             Month |-> with_pc[i].TransactionDate.m] @@ with_pc[i]]

\* groupby(...).agg("sum") of one group: the values are added in row order
\* with a compensation term.
RECURSIVE CompensatedSum(_, _, _, _)
CompensatedSum(sum, comp, col, i) ==
    IF i > Len(col) THEN sum
    ELSE LET y == FSub(col[i], comp)
             t == FAdd(sum, y)
         IN  IF t.mag[1] >= 0
             THEN CompensatedSum(t, FSub(FSub(t, sum), y), col, i + 1)
             ELSE t

GroupSum(col) == CompensatedSum(FZero, FZero, col, 1)

\* One row of the summary: the sums rounded, and lines 126-128.
SummaryRow(df, type) ==
    LET rows         == RecordsOfType(df, type)
        Total_Amount == FRound2(GroupSum([i \in 1..Len(rows) |-> rows[i].Amount]))
        Total_Tax    == FRound2(GroupSum([i \in 1..Len(rows) |-> rows[i].Final_Tax]))
    IN  [Year |-> "2025", Month |-> "8", MembershipType |-> type,
         Total_Amount |-> Total_Amount, Total_Tax |-> Total_Tax,
         Effective_Tax |-> FRound2(FMul(FDiv(Total_Tax, Total_Amount), F100))]

\* Lines 131-142: the grand total row.
GrandTotals(groups) ==
    LET amounts == [i \in 1..Len(groups) |-> groups[i].Total_Amount]
        taxes   == [i \in 1..Len(groups) |-> groups[i].Total_Tax]
        amount  == SeriesSum(amounts, Len(amounts))
        tax     == SeriesSum(taxes, Len(taxes))
    IN  [Year |-> "All", Month |-> "All", MembershipType |-> "Grand Total",
         Total_Amount |-> amount, Total_Tax |-> tax,
         Effective_Tax |-> FRound2(FMul(FDiv(tax, amount), F100))]

\* create_membership_summary (lines 112-147): the groups in the order of
\* their keys, then the grand total.
CreateMembershipSummary(df) ==
    LET types  == SelectSeq(<<"New", "Recurring">>,
                            LAMBDA t : RecordsOfType(df, t) # <<>>)
        groups == [i \in 1..Len(types) |-> SummaryRow(df, types[i])]
    IN  Append(groups, GrandTotals(groups))

\* f"{x:.2f}"
Fixed2(x) == [fmt |-> ".2f", value |-> x]

\* Lines 176-184
CleanSummaryData(summary_rows) ==
    <<<<"Year", "Month", "Membership Type", "Total_Amount", "Total_Tax">>>>
    \o [i \in 1..Len(summary_rows) |->
           <<summary_rows[i].Year, summary_rows[i].Month,
             summary_rows[i].MembershipType,
             Fixed2(summary_rows[i].Total_Amount),
             Fixed2(summary_rows[i].Total_Tax)>>]

\* Lines 212-225
CleanDetailedData(df) ==
    <<<<"#", "Order ID", "Transaction Date", "Amount", "Final_Tax", "Membership Type">>>>
    \o [i \in 1..Len(df) |->
           <<i, df[i].OrderID, df[i].TransactionDate, Fixed2(df[i].Amount),
             Fixed2(df[i].Final_Tax), df[i].MembershipType>>]

\* Lines 165-242: the elements of the report.
CleanElements(df, summary_rows) ==
    <<Paragraph("Title", "Woodland Play Cafe - Clean Membership Report (August 2025)", <<>>),
      Spacer,
      Paragraph("Heading2", "MEMBERSHIP SUMMARY (Year, Month, Amount + Tax)", <<>>),
      Table(CleanSummaryData(summary_rows)),
      Spacer>>
    \o (IF Len(df) > 0
        THEN <<PageBreak,
               Paragraph("Heading1", "FINAL_TAX", <<>>),
               Spacer,
               Paragraph("Normal", "Total Records: {} membership transactions (August 2025)",
                         <<Len(df)>>),
               Spacer,
               Table(CleanDetailedData(df))>>
        ELSE <<>>)

\* f"Clean_Membership_Report_{datetime.now().strftime('%Y%m%d_%H%M%S')}.pdf"
CleanName(t) == FileName("Clean_Membership_Report_", t)

\* load_membership_data returns (line 153).
load_membership_data ==
    /\ pc = "generate_clean_membership_pdf"
    /\ ~CleanDateRaises(IndexTrans(TransReportFile))
    /\ august_2025' = LoadMembershipData(IndexTrans(TransReportFile),
                                         IndexRows(MembershipFile.rows),
                                         IndexTax(TaxReportFile))
    /\ pc' = "clean_loaded"
    /\ UNCHANGED <<files, loaded, prepared, filtered, trans_aug_grouped, results, summary,
                   second, process, report, trans_filtered, MembershipFile,
                   all_membership_data, consulted, tallies>>

\* The exception load_membership_data can raise: a workbook is missing, a
\* date cell is text, or august_2025 has no row, where DataFrame.apply
\* returns a frame that lines 89 and 101 assign to one column (an error or
\* not with the version of pandas).
CleanLoadErrors ==
    {"FileNotFoundError"}
    \cup (IF \/ CleanDateRaises(IndexTrans(TransReportFile))
             \/ CleanAugust(IndexTrans(TransReportFile)) = <<>>
          THEN {"ValueError"} ELSE {})

\* Nothing catches an exception: the traceback is printed and the process
\* ends with status 1.
load_membership_data_raises ==
    /\ pc = "generate_clean_membership_pdf"
    /\ \E e \in CleanLoadErrors : error' = e
    /\ exit_status' = 1
    /\ pc' = "clean_failed"
    /\ UNCHANGED <<files, loaded, prepared, filtered, trans_aug_grouped, results, summary,
                   second, stdout, report, standalone>>

\* Line 156
create_membership_summary ==
    /\ pc = "clean_loaded"
    /\ membership_summary_df' = CreateMembershipSummary(august_2025)
    /\ pc' = "clean_summarised"
    /\ UNCHANGED <<files, loaded, prepared, filtered, trans_aug_grouped, results, summary,
                   second, process, report, trans_filtered, MembershipFile,
                   all_membership_data, august_2025, consulted, matched, not_matched,
                   new_count, recurring_count>>

\* Lines 158-242
clean_create_elements ==
    /\ pc = "clean_summarised"
    /\ \E t \in ClockReadings : filename' = CleanName(t)
    /\ story' = CleanElements(august_2025, membership_summary_df)
    /\ pc' = "clean_composed"
    /\ UNCHANGED <<files, loaded, prepared, filtered, trans_aug_grouped, results, summary,
                   second, process, disk, run, standalone>>

\* Line 245: doc.build(elements)
clean_doc_build ==
    /\ pc = "clean_composed"
    /\ disk' = {f \in disk : f.name # filename}
               \cup {[name |-> filename, content |-> story, run |-> run]}
    /\ pc' = "clean_built"
    /\ UNCHANGED <<files, loaded, prepared, filtered, trans_aug_grouped, results, summary,
                   second, process, story, filename, run, standalone>>

\* The file cannot be written.
clean_doc_build_raises ==
    /\ pc = "clean_composed"
    /\ error' = "PermissionError"
    /\ exit_status' = 1
    /\ pc' = "clean_failed"
    /\ UNCHANGED <<files, loaded, prepared, filtered, trans_aug_grouped, results, summary,
                   second, stdout, report, standalone>>

\* Lines 247-251: the message, and the end of the module.
clean_ends ==
    /\ pc = "clean_built"
    /\ stdout' = Append(stdout, "Clean Membership PDF generated")
    /\ exit_status' = 0
    /\ pc' = "clean_done"
    /\ UNCHANGED <<files, loaded, prepared, filtered, trans_aug_grouped, results, summary,
                   second, error, report, standalone>>

NextClean ==
    \/ load_membership_data
    \/ load_membership_data_raises
    \/ create_membership_summary
    \/ clean_create_elements
    \/ clean_doc_build
    \/ clean_doc_build_raises
    \/ clean_ends

\* Rows of 'Transv1.xlsx' and of 'Tax.xlsx' for the clean report.
MaxCleanTransRows == 2

MaxCleanTaxRows == 2

\* Memberships of 1.00 and 0.50, a membership of 0.00, and a row whose date
\* cell is text.
CleanTransCells ==
    {TransCell(Id_MEM1, 100, Aug2025, "Main", "online"),
     TransCell(Id_MEM2, 50, Aug03, "Main", "online"),
     TransCell(Id_MEM2, 0, Aug2025, "Main", "online"),
     TransCell(Id_MEM1, 100, TextDate, "Main", "online")}

\* One row of 'Tax.xlsx' with its Tax cell, in cents.
TaxCellWith(id, tax) == [Tax |-> FromCents(tax)] @@ TaxCell(id, 100, Aug2025, "memberships")

\* Tax of 8% on MEM1 and on MEM2, and of 5% on MEM1.
CleanTaxCells ==
    {TaxCellWith(Id_MEM1, 8), TaxCellWith(Id_MEM2, 4), TaxCellWith(Id_MEM1, 5)}

StartdateCell(id, start) == [membershipid |-> id, startdate |-> start]

StartdateSheets ==
    {<<>>,
     <<StartdateCell(Id_MEM1, Aug2025), StartdateCell(Id_MEM2, Jul2025)>>}

CleanFiles ==
    /\ TransReportFile \in Tables(CleanTransCells, MaxCleanTransRows)
    /\ TaxReportFile \in Tables(CleanTaxCells, MaxCleanTaxRows)
    /\ FullHeaders
    /\ MembershipFile \in {[columns |-> {"membershipid", "startdate"}, rows |-> rows] :
                              rows \in StartdateSheets}

InitClean ==
    /\ CleanFiles
    /\ pc = "generate_clean_membership_pdf"
    /\ MainLocalsUnbound
    /\ ProcessStarts
    /\ NothingWritten
    /\ filename = None
    /\ trans_filtered = Unbound
    /\ all_membership_data = Unbound
    /\ august_2025 = Unbound
    /\ consulted = {}
    /\ TalliesUnbound

SpecClean == InitClean /\ [][NextClean]_vars

(***************************************************************************)
(* The clean membership report.                                            *)
(***************************************************************************)

\* load_membership_data has returned.
CleanLoaded ==
    pc \in {"clean_loaded", "clean_summarised", "clean_composed", "clean_built", "clean_done"}

\* The transactions with a tax value, and the others.
Taxed(df) == {i \in 1..Len(df) : ~IsNull(df[i].Tax)}

Untaxed(df) == {i \in 1..Len(df) : IsNull(df[i].Tax)}

\* The percentages that the most transactions with a tax value have.
MostCommonPercentages(df) ==
    LET n(p) == Cardinality({i \in Taxed(df) : df[i].Tax_Percentage = p})
    IN  {df[i].Tax_Percentage : i \in {k \in Taxed(df) :
            \A j \in Taxed(df) : n(df[j].Tax_Percentage) <= n(df[k].Tax_Percentage)}}

\* 8.88%
EightEightyEight == FDiv(FromCents(888), FromInt(100))

\* C29: in the final membership script the Final_Tax of a transaction is
\* its Tax whenever it has a tax value; otherwise it is its Amount times one
\* rate for all transactions, which is a most common Tax/Amount percentage
\* among the transactions with a tax value, or 8.88% when there is none; and
\* every Final_Tax is a number.
C29_FinalTax ==
    CleanLoaded =>
        /\ \A i \in Taxed(august_2025) :
              /\ august_2025[i].Final_Tax = august_2025[i].Tax
              /\ Positive(august_2025[i].Amount) =>
                    august_2025[i].Tax_Percentage
                    = FMul(FDiv(august_2025[i].Tax, august_2025[i].Amount), FromInt(100))
        /\ Taxed(august_2025) = {} =>
              \A i \in Untaxed(august_2025) :
                  august_2025[i].Final_Tax = FMul(august_2025[i].Amount, EightEightyEight)
        /\ Taxed(august_2025) # {} =>
              \E p \in MostCommonPercentages(august_2025) :
                  \A i \in Untaxed(august_2025) :
                      august_2025[i].Final_Tax
                      = FMul(august_2025[i].Amount, FDiv(p, FromInt(100)))
        /\ \A i \in 1..Len(august_2025) : IsFinite(august_2025[i].Final_Tax)

\* A transaction without a tax value whose Final_Tax comes from the rate of
\* two transactions with one.
C29_Witness ==
    /\ pc = "clean_done"
    /\ Cardinality(Taxed(august_2025)) >= 2
    /\ \E i \in Untaxed(august_2025) : Positive(august_2025[i].Final_Tax)

\* C30: no percentage divides by zero: the tax percentage of a record, the
\* effective tax percentage of a membership type and that of the grand total
\* are numbers, and 0 when the amount they divide by is not positive.
C30_NoDivisionByZero ==
    /\ CleanLoaded =>
          \A i \in 1..Len(august_2025) :
              /\ IsFinite(august_2025[i].Tax_Percentage)
              /\ ~Positive(august_2025[i].Amount) => august_2025[i].Tax_Percentage = FZero
    /\ pc \in {"clean_summarised", "clean_composed", "clean_built", "clean_done"} =>
          \A i \in 1..Len(membership_summary_df) :
              /\ IsFinite(membership_summary_df[i].Effective_Tax)
              /\ ~Positive(membership_summary_df[i].Total_Amount) =>
                     membership_summary_df[i].Effective_Tax = FZero

====
